---- MODULE Spec2Model ----
(***************************************************************************)
(* Model of the adaptive fetch scheduler of info-collector-X: the          *)
(* twitter_users / twitter_posts tables (src/src/database.py), the         *)
(* per-account processing of src/src/processor.py and the crawl jobs of    *)
(* src/src/tasks.py.  Times are minutes on the UTC clock; minute 0 is      *)
(* midnight of day 0.                                                      *)
(***************************************************************************)
EXTENDS Integers, Sequences, FiniteSets, TLC

VARIABLES
    now,            \* the wall clock (NOW() / datetime.now(timezone.utc)), minutes
    ticks,          \* number of clock advances so far
    twitter_users,  \* the twitter_users table: id -> row
    twitter_posts,  \* the twitter_posts table: a set of rows
    job,            \* per runner process: the task function it is executing
    task,           \* per runner, per account: the process_single_user call in flight
    last_feed,      \* per account: the feed list most recently handed to insert_posts
    runners,        \* the runner processes that exist (cron may overlap jobs)
    post_analysis,  \* the post_analysis table: a set of rows
    enricher,       \* per runner: the run_enrichment_analysis call it is executing
    postprocessing, \* the postprocessing table: a set of rows
    postprocessor,  \* per runner: the TwitterPostProcessor.process_posts call it is executing
    llm,            \* the LLMClient call in progress (_make_request or call_vlm)
    insight,        \* the PostInsightsAnalyzer run in progress
    post_insights,  \* table post_insights
    report,         \* the report function or report run being evaluated
    intelligence_reports  \* the intelligence_reports table: a sequence of rows by id

\* The state of the analysis jobs (enrichment, post-processing, model calls).
avars == <<post_analysis, enricher, postprocessing, postprocessor, llm, insight, post_insights>>

\* The state of the report generator.
rvars == <<report, intelligence_reports>>

\* The state of the crawl jobs apart from the twitter_posts table.
cvars == <<now, ticks, twitter_users, job, task, last_feed, runners>>

vars == <<now, ticks, twitter_users, twitter_posts, job, task, last_feed, runners, avars, rvars>>

----------------------------------------------------------------------------
(* Bounds of the model *)

MaxTicks == 2
ClockStep == 510
MaxFeed == 1
MaxWorkers == 2

MaxPosts == 2
MaxBatch == 3
MaxRetries == 3
MaxCandidates == 3
MaxPacked == 2
MaxContext == 60
MaxModels == 2
MaxRuns == 2
MaxStale == 3
MaxPool == 3

\* max_retries: int = 3 of call_fast_model and call_vlm
default_max_retries == 3

\* FAILURE_HANDLING.max_failed_attempts is configurable (default 5,
\* src/src/config.py:170); the model runs with a small threshold so that
\* quarantine is reached within MaxTicks clock advances.
max_failed_attempts == 2

Accounts == {1, 2}
\* The accounts one call of process_users_batch can be handed.
PoolAccounts == 1..MaxPool
Runners == {"r1", "r2"}
Urls == {"u1"}
Contents == {"c1", "c2"}
Tiers == {"high", "medium", "low"}
Limits == {1, 2}

(* Configuration values (src/src/config.py) *)

high_interval_minutes == 20
low_interval_hours == 3
retry_delay_min == 15
retry_delay_max == 25
start_hour == 17
end_hour == 22
scavenger_hours_back == 12
postprocess_hours_back == 36
min_content_length == 10

NULL == <<>>
MinutesPerDay == 24 * 60

Min(a, b) == IF a <= b THEN a ELSE b
Max(a, b) == IF a >= b THEN a ELSE b

SeqsUpTo(S, n) == UNION {[1..k -> S] : k \in 0..n}
Permutations_(S) ==
    {s \in [1..Cardinality(S) -> S] :
        \A i, j \in 1..Cardinality(S) : i # j => s[i] # s[j]}
Prefix(s, n) == SubSeq(s, 1, Min(n, Len(s)))
Range(s) == {s[i] : i \in DOMAIN s}

----------------------------------------------------------------------------
(* The gateway: crawl_user_posts returns None or a list of parsed entries *)

PublishedAts == {0 - 60}
Entry == [post_url : Urls, post_content : Contents, published_at : PublishedAts]
Feeds == SeqsUpTo(Entry, MaxFeed)

----------------------------------------------------------------------------
(* Store operations on twitter_users *)

\* The rows a selection returns; callers read only id and crawl_group.
Snapshot(tbl, ids) ==
    [i \in 1..Len(ids) |-> [id |-> ids[i], crawl_group |-> tbl[ids[i]].crawl_group]]

\* Variant of get_users_for_crawl without the crawl_status filter.
get_users_for_crawl_unfiltered(tbl, t, crawl_group, limit) ==
    LET due == {id \in DOMAIN tbl :
                    /\ tbl[id].crawl_group = crawl_group
                    /\ tbl[id].next_crawl_time <= t}
    IN  {Snapshot(tbl, Prefix(p, limit)) : p \in Permutations_(due)}

\* Variant of get_users_for_crawl with next_crawl_time < NOW().
get_users_for_crawl_past(tbl, t, crawl_group, limit) ==
    LET due == {id \in DOMAIN tbl :
                    /\ tbl[id].crawl_group = crawl_group
                    /\ tbl[id].next_crawl_time < t
                    /\ tbl[id].crawl_status # "quarantined"}
    IN  {Snapshot(tbl, Prefix(p, limit)) : p \in Permutations_(due)}

\* ORDER BY RAND() LIMIT n over the due, non-quarantined rows of the group.
get_users_for_crawl(tbl, t, crawl_group, limit) ==
    LET due == {id \in DOMAIN tbl :
                    /\ tbl[id].crawl_group = crawl_group
                    /\ tbl[id].next_crawl_time <= t
                    /\ tbl[id].crawl_status # "quarantined"}
    IN  {Snapshot(tbl, Prefix(p, limit)) : p \in Permutations_(due)}

\* last_crawled_at ASC: NULL sorts first.
LastLeq(x, y) == x = NULL \/ (y # NULL /\ x[1] <= y[1])

get_all_active_users(tbl) ==
    LET active == {id \in DOMAIN tbl : tbl[id].crawl_status # "quarantined"}
    IN  {Snapshot(tbl, p) : p \in
            {q \in Permutations_(active) :
                \A i, j \in 1..Len(q) :
                    i < j => LastLeq(tbl[q[i]].last_crawled_at, tbl[q[j]].last_crawled_at)}}

\* Variant of get_stale_users without the crawl_status = 'pending' condition.
get_stale_users_any_status(tbl, t, hours_back, limit) ==
    LET stale == {id \in DOMAIN tbl :
                    /\ tbl[id].next_crawl_time < t - hours_back * 60
                    /\ tbl[id].crawl_status # "quarantined"}
    IN  {Snapshot(tbl, Prefix(p, limit)) : p \in
            {q \in Permutations_(stale) :
                \A i, j \in 1..Len(q) :
                    i < j => tbl[q[i]].next_crawl_time <= tbl[q[j]].next_crawl_time}}

get_stale_users(tbl, t, hours_back, limit) ==
    LET stale == {id \in DOMAIN tbl :
                    /\ tbl[id].next_crawl_time < t - hours_back * 60
                    /\ tbl[id].crawl_status = "pending"
                    /\ tbl[id].crawl_status # "quarantined"}
    IN  {Snapshot(tbl, Prefix(p, limit)) : p \in
            {q \in Permutations_(stale) :
                \A i, j \in 1..Len(q) :
                    i < j => tbl[q[i]].next_crawl_time <= tbl[q[j]].next_crawl_time}}

update_user_crawl_success(tbl, user_id, next_crawl_time, t) ==
    [tbl EXCEPT ![user_id] =
        [@ EXCEPT !.last_crawled_at = <<t>>,
                  !.next_crawl_time = next_crawl_time,
                  !.crawl_status = "success",
                  !.failed_attempts = 0]]

\* update_user_crawl_failure, first statement: SELECT failed_attempts.
failure_select(tbl, user_id) == tbl[user_id].failed_attempts

\* Variant of failure_update whose threshold test is strict (>), an off-by-one.
failure_update_gt(tbl, user_id, current_failures, retry_time) ==
    LET new_failures == current_failures + 1
    IN  IF new_failures > max_failed_attempts
        THEN [tbl EXCEPT ![user_id] =
                [@ EXCEPT !.failed_attempts = new_failures,
                          !.crawl_status = "quarantined"]]
        ELSE [tbl EXCEPT ![user_id] =
                [@ EXCEPT !.failed_attempts = new_failures,
                          !.next_crawl_time = retry_time,
                          !.crawl_status = "failed"]]

\* update_user_crawl_failure, second statement: the UPDATE chosen by the threshold.
failure_update(tbl, user_id, current_failures, retry_time) ==
    LET new_failures == current_failures + 1
    IN  IF new_failures >= max_failed_attempts
        THEN [tbl EXCEPT ![user_id] =
                [@ EXCEPT !.failed_attempts = new_failures,
                          !.crawl_status = "quarantined"]]
        ELSE [tbl EXCEPT ![user_id] =
                [@ EXCEPT !.failed_attempts = new_failures,
                          !.next_crawl_time = retry_time,
                          !.crawl_status = "failed"]]

----------------------------------------------------------------------------
(* Store operations on twitter_posts *)

PostRow(user_id, e) ==
    [post_url |-> e.post_url, user_table_id |-> user_id,
     post_content |-> e.post_content, published_at |-> e.published_at]

\* Variant of InsertIgnore with REPLACE semantics: the new tuple overwrites a
\* row that has the same post_url.
InsertReplace(tbl, row) ==
    {p \in tbl : p.post_url # row.post_url} \cup {row}

\* One VALUES tuple of INSERT IGNORE under UNIQUE KEY uniq_post_url.
InsertIgnore(tbl, row) ==
    IF \E p \in tbl : p.post_url = row.post_url THEN tbl ELSE tbl \cup {row}

RECURSIVE executemany(_, _)
executemany(tbl, values) ==
    IF values = <<>> THEN tbl
    ELSE executemany(InsertIgnore(tbl, Head(values)), Tail(values))

\* Variant of insert_posts that reports the rows attempted (len(values))
\* instead of cursor.rowcount.
insert_posts_attempted(tbl, posts) ==
    [table |-> executemany(tbl, posts), inserted_count |-> Len(posts)]

insert_posts(tbl, posts) ==
    IF posts = <<>>
    THEN [table |-> tbl, inserted_count |-> 0]
    ELSE LET new == executemany(tbl, posts)
         IN  [table |-> new, inserted_count |-> Cardinality(new) - Cardinality(tbl)]

----------------------------------------------------------------------------
(* Tier recomputation: the single UPDATE ... LEFT JOIN of update_user_profiling *)

Day(t) == t \div MinutesPerDay

SetMin(S) == CHOOSE x \in S : \A y \in S : x <= y

\* Variant of ProfileOf without the cold-start branch of the CASE.
ProfileOfNoColdStart(row, id, posts, t) ==
    LET recent == {p \in posts : p.user_table_id = id
                                 /\ p.published_at >= t - 7 * MinutesPerDay}
        cnt == Cardinality(recent)
        days_observed ==
            IF cnt = 0 THEN 1
            ELSE Min(7, Max(1, Day(t) - Day(SetMin({p.published_at : p \in recent})) + 1))
        group == IF cnt > 10 * days_observed THEN "high"
                 ELSE IF cnt > days_observed THEN "medium"
                 ELSE "low"
    IN  [row EXCEPT !.avg_posts_per_day = (cnt * 420) \div days_observed,
                    !.crawl_group = group]

\* avg_posts_per_day is kept in units of 1/420 post per day (420 = lcm(1..7)).
ProfileOf(row, id, posts, t) ==
    LET recent == {p \in posts : p.user_table_id = id
                                 /\ p.published_at >= t - 7 * MinutesPerDay}
        cnt == Cardinality(recent)
        days_observed ==
            IF cnt = 0 THEN 1
            ELSE Min(7, Max(1, Day(t) - Day(SetMin({p.published_at : p \in recent})) + 1))
        group == IF cnt > 10 * days_observed THEN "high"
                 ELSE IF cnt > days_observed THEN "medium"
                 ELSE IF cnt = 0 /\ Day(t) - Day(row.created_at) < 3 THEN "medium"
                 ELSE "low"
    IN  [row EXCEPT !.avg_posts_per_day = (cnt * 420) \div days_observed,
                    !.crawl_group = group]

\* Variant of update_user_profiling that averages the stored and the
\* computed avg_posts_per_day.
update_user_profiling_smoothed(tbl, posts, t) ==
    [id \in DOMAIN tbl |->
        IF tbl[id].crawl_status # "quarantined"
        THEN [ProfileOf(tbl[id], id, posts, t) EXCEPT
                !.avg_posts_per_day = (@ + tbl[id].avg_posts_per_day) \div 2]
        ELSE tbl[id]]

\* Variant of update_user_profiling without the WHERE clause.
update_user_profiling_all(tbl, posts, t) ==
    [id \in DOMAIN tbl |-> ProfileOf(tbl[id], id, posts, t)]

update_user_profiling(tbl, posts, t) ==
    [id \in DOMAIN tbl |->
        IF tbl[id].crawl_status # "quarantined"
        THEN ProfileOf(tbl[id], id, posts, t)
        ELSE tbl[id]]

----------------------------------------------------------------------------
(* processor.py helpers *)

Hour(t) == (t \div 60) % 24

\* Variant of check_sleep_window that excludes the first hour of the window.
check_sleep_window_exclusive(t) == start_hour < Hour(t) /\ Hour(t) <= end_hour

check_sleep_window(t) == start_hour <= Hour(t) /\ Hour(t) <= end_hour

\* groups_config has the keys high_interval_minutes, medium_interval_minutes and
\* low_interval_hours; the 'medium' branch looks up 'medium_interval_hours' and
\* raises KeyError.
_calculate_next_crawl_time(crawl_group, t) ==
    IF crawl_group = "high"
    THEN [raised |-> FALSE, time |-> t + high_interval_minutes]
    ELSE IF crawl_group = "medium"
    THEN [raised |-> TRUE, time |-> 0]
    ELSE IF crawl_group = "low"
    THEN [raised |-> FALSE, time |-> t + low_interval_hours * 60]
    ELSE [raised |-> FALSE, time |-> t + 2 * 60]

\* Variant of _calculate_retry_time that takes the delays as hours.
_calculate_retry_time_hours(t) == {t + retry_delay_min * 60, t + retry_delay_max * 60}

\* random.uniform(retry_delay_min, retry_delay_max) minutes after now; the two
\* ends of the range stand for it.
_calculate_retry_time(t) == {t + retry_delay_min, t + retry_delay_max}

----------------------------------------------------------------------------
(* State *)

IdleJob ==
    [pc |-> "idle", users |-> <<>>, submitted |-> 0,
     max_workers |-> 1, success |-> TRUE, users_success |-> 0,
     posts_inserted |-> 0]

NoTask ==
    [pc |-> "none", current_failures |-> 0, retry_time |-> 0,
     next_crawl_time |-> 0]

\* A row as init_users_from_csv leaves it (crawl_group 'medium', the column
\* defaults), or an older row whose tier an earlier profiling run has set.
NewRow(created_at, crawl_group) ==
    [crawl_group |-> crawl_group, last_crawled_at |-> NULL,
     next_crawl_time |-> created_at, crawl_status |-> "pending",
     failed_attempts |-> 0, avg_posts_per_day |-> 0, created_at |-> created_at]

InitialRows ==
    {NewRow(0, "medium")} \cup {NewRow(0 - 3 * MinutesPerDay, g) : g \in {"high", "low"}}

IdleEnricher ==
    [pc |-> "idle", posts |-> <<>>, batch_size |-> 0, done |-> {},
     success |-> 0, failed |-> 0]

IdlePostprocessor ==
    [pc |-> "idle", posts |-> <<>>, done |-> {}, success |-> 0, failed |-> 0]

NoCall ==
    [pc |-> "none", shape |-> "none", model_name |-> "none", max_retries |-> 0,
     attempt |-> 0, responses |-> <<>>, waits |-> <<>>,
     success |-> FALSE, content |-> "", error |-> ""]

NoInsight ==
    [pc |-> "none", posts |-> <<>>, post_id |-> 0, image_urls |-> {},
     image_data |-> {}, results |-> <<>>, success |-> 0, failed |-> 0]

\* No analysis job is running and the analysis tables are empty.
NoReport == [pc |-> "none"]

ReportsAtRest ==
    /\ report = NoReport
    /\ intelligence_reports = <<>>

AnalysisAtRest ==
    /\ post_analysis = {}
    /\ enricher = [r \in Runners |-> IdleEnricher]
    /\ postprocessing = {}
    /\ postprocessor = [r \in Runners |-> IdlePostprocessor]
    /\ llm = NoCall
    /\ insight = NoInsight
    /\ post_insights = {}

InitWith(R, A) ==
    /\ now = 0
    /\ ticks = 0
    /\ twitter_users \in [A -> InitialRows]
    /\ twitter_posts = {}
    /\ job = [r \in Runners |-> IdleJob]
    /\ task = [r \in Runners |-> [a \in PoolAccounts |-> NoTask]]
    /\ last_feed = [a \in PoolAccounts |-> {}]
    /\ runners = R
    /\ AnalysisAtRest
    /\ ReportsAtRest

\* Two overlapping runner processes working on one account.
Init == InitWith(Runners, {1})

\* One runner process working on the whole roster.
InitBatch == InitWith({"r1"}, Accounts)

Quarantined(tbl) == {id \in DOMAIN tbl : tbl[id].crawl_status = "quarantined"}

Active(r) == {a \in PoolAccounts : task[r][a].pc # "none"}

----------------------------------------------------------------------------
(* Jobs (src/src/tasks.py) *)

\* A task result with every counter 0 (quiet window, nothing selected, error).
EmptyResult(users, ok) ==
    [IdleJob EXCEPT !.pc = "done", !.users = users, !.success = ok]

\* The pool runs min(max_workers, len(users)) worker threads.
BatchJob(users, max_workers) ==
    [IdleJob EXCEPT !.pc = "batch", !.users = users,
                    !.max_workers = Min(max_workers, Len(users))]

\* 'users_processed': len(results), the accounts whose call has returned.
users_processed(r) == job[r].submitted - Cardinality({a \in PoolAccounts : task[r][a].pc # "none"})

\* users_failed = len(results) - users_success
users_failed(r) == users_processed(r) - job[r].users_success

run_crawl_task(r) ==
    /\ r \in runners
    /\ job[r].pc = "idle"
    /\ \E crawl_group \in Tiers, limit \in Limits, max_workers \in 1..MaxWorkers :
        IF check_sleep_window(now)
        THEN job' = [job EXCEPT ![r] = EmptyResult(<<>>, TRUE)]
        ELSE \E users \in get_users_for_crawl(twitter_users, now, crawl_group, limit) :
                job' = [job EXCEPT ![r] =
                    IF users = <<>>
                    THEN EmptyResult(users, TRUE)
                    ELSE BatchJob(users, max_workers)]
    /\ UNCHANGED <<now, ticks, twitter_users, twitter_posts, task, last_feed, runners, avars, rvars>>

\* process_users_batch is called with the keyword delay_after_batch, which it
\* does not accept: the call raises TypeError and the task returns its error
\* result without processing any account.
run_full_crawl_task(r) ==
    /\ r \in runners
    /\ job[r].pc = "idle"
    /\ IF check_sleep_window(now)
       THEN job' = [job EXCEPT ![r] = EmptyResult(<<>>, TRUE)]
       ELSE \E all_users \in get_all_active_users(twitter_users) :
                job' = [job EXCEPT ![r] =
                    EmptyResult(all_users, all_users = <<>>)]
    /\ UNCHANGED <<now, ticks, twitter_users, twitter_posts, task, last_feed, runners, avars, rvars>>

run_scavenger_task(r) ==
    /\ r \in runners
    /\ job[r].pc = "idle"
    /\ \E limit \in Limits, max_workers \in 1..MaxWorkers :
        \E stale_users \in get_stale_users(twitter_users, now, scavenger_hours_back, limit) :
            job' = [job EXCEPT ![r] =
                IF stale_users = <<>>
                THEN EmptyResult(stale_users, TRUE)
                ELSE BatchJob(stale_users, max_workers)]
    /\ UNCHANGED <<now, ticks, twitter_users, twitter_posts, task, last_feed, runners, avars, rvars>>

run_user_profiling_task ==
    /\ twitter_users' = update_user_profiling(twitter_users, twitter_posts, now)
    /\ twitter_users' # twitter_users
    /\ UNCHANGED <<now, ticks, twitter_posts, job, task, last_feed, runners, avars, rvars>>

----------------------------------------------------------------------------
(* process_users_batch and process_single_user (src/src/processor.py) *)

\* The account the serial loop or the thread pool hands to a worker next.
NextUser(r) == Head(job[r].users)

\* Variant of the pool that starts a call for every submitted account at once,
\* whatever max_workers is.
CanSubmit_unbounded(r) ==
    /\ r \in runners
    /\ job[r].pc = "batch"
    /\ job[r].users # <<>>

\* ThreadPoolExecutor(max_workers=max_workers): a submitted call starts only
\* while fewer than max_workers calls are running.
CanSubmit(r) ==
    /\ r \in runners
    /\ job[r].pc = "batch"
    /\ job[r].users # <<>>
    /\ Cardinality(Active(r)) < job[r].max_workers

\* A failure branch that lets its exception escape: the call ends without
\* touching the store.
FailureEntryRaised(tbl, user_id, retry_time) == NoTask

\* The entry of the except branch and of the posts_data-is-None branch:
\* _calculate_retry_time(), then the SELECT of update_user_crawl_failure.
FailureEntry(tbl, user_id, retry_time) ==
    [NoTask EXCEPT !.pc = "update_failure",
                   !.current_failures = failure_select(tbl, user_id),
                   !.retry_time = retry_time]

\* process_single_user up to its store update, crawl_user_posts returning None.
FetchFailed(r) ==
    /\ CanSubmit(r)
    /\ \E retry_time \in _calculate_retry_time(now) :
        task' = [task EXCEPT ![r][NextUser(r).id] =
                    FailureEntry(twitter_users, NextUser(r).id, retry_time)]
    /\ job' = [job EXCEPT ![r].submitted = @ + 1, ![r].users = Tail(@)]
    /\ UNCHANGED <<now, ticks, twitter_users, twitter_posts, last_feed, runners, avars, rvars>>

\* process_single_user up to its store update, crawl_user_posts returning a
\* list (possibly empty): insert_posts, then _calculate_next_crawl_time; a
\* KeyError there enters the except branch.
FetchedList(r) ==
    /\ CanSubmit(r)
    /\ \E posts_data \in Feeds :
        LET u == NextUser(r)
            processed_posts == [i \in DOMAIN posts_data |-> PostRow(u.id, posts_data[i])]
            ins == insert_posts(twitter_posts, processed_posts)
            nxt == _calculate_next_crawl_time(u.crawl_group, now)
        IN  /\ twitter_posts' = ins.table
            /\ last_feed' = [last_feed EXCEPT ![u.id] = {posts_data}]
            /\ IF nxt.raised
               THEN \E retry_time \in _calculate_retry_time(now) :
                     task' = [task EXCEPT ![r][u.id] =
                         FailureEntry(twitter_users, u.id, retry_time)]
               ELSE task' = [task EXCEPT ![r][u.id] =
                         [NoTask EXCEPT !.pc = "update_success",
                                        !.next_crawl_time = nxt.time]]
            \* result['posts_count'] = inserted_count, summed into posts_inserted
            /\ job' = [job EXCEPT ![r].submitted = @ + 1,
                                  ![r].users = Tail(@),
                                  ![r].posts_inserted = @ + ins.inserted_count]
    /\ UNCHANGED <<now, ticks, twitter_users, runners, avars, rvars>>

\* update_user_crawl_success; the call returns success = True.
UpdateSuccess(r, a) ==
    /\ r \in runners
    /\ task[r][a].pc = "update_success"
    /\ twitter_users' = update_user_crawl_success(twitter_users, a,
                                                  task[r][a].next_crawl_time, now)
    /\ job' = [job EXCEPT ![r].users_success = @ + 1]
    /\ task' = [task EXCEPT ![r][a] = NoTask]
    /\ UNCHANGED <<now, ticks, twitter_posts, last_feed, runners, avars, rvars>>

\* The UPDATE of update_user_crawl_failure; the call returns success = False.
UpdateFailure(r, a) ==
    /\ r \in runners
    /\ task[r][a].pc = "update_failure"
    /\ twitter_users' = failure_update(twitter_users, a, task[r][a].current_failures,
                                       task[r][a].retry_time)
    /\ task' = [task EXCEPT ![r][a] = NoTask]
    /\ UNCHANGED <<now, ticks, twitter_posts, job, last_feed, runners, avars, rvars>>

\* All accounts of the batch have returned: the statistics are the result.
FinishBatch(r) ==
    /\ r \in runners
    /\ job[r].pc = "batch"
    /\ job[r].users = <<>>
    /\ Active(r) = {}
    /\ job' = [job EXCEPT ![r] =
                [EmptyResult(<<>>, TRUE) EXCEPT
                    !.users_success = job[r].users_success,
                    !.submitted = job[r].submitted,
                    !.posts_inserted = job[r].posts_inserted]]
    /\ UNCHANGED <<now, ticks, twitter_users, twitter_posts, task, last_feed, runners, avars, rvars>>

\* The process exits; the runner is free for the next scheduled job.
Return(r) ==
    /\ r \in runners
    /\ job[r].pc = "done"
    /\ job' = [job EXCEPT ![r] = IdleJob]
    /\ UNCHANGED <<now, ticks, twitter_users, twitter_posts, task, last_feed, runners, avars, rvars>>

Tick ==
    /\ ticks < MaxTicks
    /\ now' = now + ClockStep
    /\ ticks' = ticks + 1
    /\ UNCHANGED <<twitter_users, twitter_posts, job, task, last_feed, runners, avars, rvars>>

Next ==
    \/ \E r \in Runners : run_crawl_task(r)
    \/ \E r \in Runners : run_full_crawl_task(r)
    \/ \E r \in Runners : run_scavenger_task(r)
    \/ run_user_profiling_task
    \/ \E r \in Runners : FetchFailed(r)
    \/ \E r \in Runners : FetchedList(r)
    \/ \E r \in Runners, a \in PoolAccounts : UpdateSuccess(r, a)
    \/ \E r \in Runners, a \in PoolAccounts : UpdateFailure(r, a)
    \/ \E r \in Runners : FinishBatch(r)
    \/ \E r \in Runners : Return(r)
    \/ Tick

Spec == Init /\ [][Next]_vars

SpecBatch == InitBatch /\ [][Next]_vars

----------------------------------------------------------------------------
(* Posts as the analysis jobs see them: twitter_posts.id is AUTO_INCREMENT,   *)
(* so the n-th post inserted has id n.                                        *)

AnalysisUrls == <<"u1", "u2", "u3">>
AnalysisContents == {"gm", "c1"}

post_id(p) == CHOOSE i \in DOMAIN AnalysisUrls : AnalysisUrls[i] = p.post_url

\* len(content.strip()): "gm" is a two-character post, the others are full posts.
text_length(post_content) == IF post_content = "gm" THEN 2 ELSE 140

AnalysisPost(i, post_content) ==
    PostRow(1, [post_url |-> AnalysisUrls[i], post_content |-> post_content,
                published_at |-> 0 - 60])

\* The post tables an analysis job can find: posts 1..n, n <= MaxPosts.
Pools ==
    {{AnalysisPost(i, c[i]) : i \in 1..n} :
        n \in 0..MaxPosts, c \in [1..MaxPosts -> AnalysisContents]}

\* The ids of a set of posts as a list in ascending id order.
OrderById(S) ==
    CHOOSE q \in Permutations_(S) : \A i, j \in 1..Len(q) : i < j => q[i] < q[j]

----------------------------------------------------------------------------
(* The model client as the enrichment jobs see it: the result dict of         *)
(* call_fast_model, success with the text the model streamed, or failure.     *)

\* What a model can stream: the JSON object asked for, the object with a
\* trailing comma inside prose, prose with braces around no JSON, and prose.
ModelContents == {"{k:v}", "text {k:v,} text", "text {k: text}", "text"}

ModelResponses ==
    {[success |-> FALSE, content |-> NULL]}
    \cup {[success |-> TRUE, content |-> c] : c \in ModelContents}

----------------------------------------------------------------------------
(* Parsing of model output (src/src/post_insights_analysis.py) *)

\* The dict json.loads gives for the object asked for.
ParsedObject == [deep_interpretation |-> "insight", llm_summary |-> "summary"]

\* json.loads: the dict, or NULL where it raises JSONDecodeError.
json_loads(text) == IF text = "{k:v}" THEN ParsedObject ELSE NULL

\* re.search(r'\{.*\}', text, re.DOTALL).group(0), or NoMatch.
NoMatch == "None"

re_search_object(text) ==
    CASE text = "{k:v}" -> "{k:v}"
      [] text = "text {k:v,} text" -> "{k:v,}"
      [] text = "text {k: text}" -> "{k: text}"
      [] OTHER -> NoMatch

\* re.sub(r",\s*([\}\]])", r"\1", text)
re_sub_trailing_commas(text) == IF text = "{k:v,}" THEN "{k:v}" ELSE text

\* PostInsightsAnalyzer._robust_json_parser: the dict, or NULL (None).
_robust_json_parser(raw_content) ==
    IF json_loads(raw_content) # NULL THEN json_loads(raw_content)
    ELSE LET json_match == re_search_object(raw_content)
         IN  IF json_match = NoMatch THEN NULL
             ELSE json_loads(re_sub_trailing_commas(json_match))

\* LLMClient.extract_json_from_response: the parsed object, or NULL (None).
extract_json_from_response(content) ==
    LET json_result == _robust_json_parser(content)
    IN  IF json_result = NULL THEN NULL
        ELSE [llm_summary |-> json_result.llm_summary]

----------------------------------------------------------------------------
(* Store operations on post_analysis (src/src/database.py) *)

\* LEFT JOIN ... WHERE pa.id IS NULL ORDER BY p.id ASC LIMIT n
get_posts_for_enrichment(posts, analysis, limit) ==
    LET unanalysed == {post_id(p) : p \in
                        {q \in posts : \A pa \in analysis : pa.post_id # post_id(q)}}
    IN  Prefix(OrderById(unanalysed), limit)

\* SQL NULL in a TEXT column.
NULL_TEXT == "NULL"

NextAnalysisId(analysis) ==
    IF analysis = {} THEN 1
    ELSE 1 + (CHOOSE m \in {pa.id : pa \in analysis} :
                \A pa \in analysis : pa.id <= m)

PendingRow(analysis, id) ==
    [id |-> NextAnalysisId(analysis), post_id |-> id,
     analysis_status |-> "pending", llm_summary |-> NULL_TEXT]

\* Variant of InsertIgnorePending with REPLACE semantics: an existing row of
\* the post is replaced by a fresh pending row.
InsertReplacePending(analysis, id) ==
    {pa \in analysis : pa.post_id # id} \cup {PendingRow(analysis, id)}

\* One VALUES tuple of INSERT IGNORE under UNIQUE KEY uniq_post_id.
InsertIgnorePending(analysis, id) ==
    IF \E pa \in analysis : pa.post_id = id
    THEN analysis
    ELSE analysis \cup {PendingRow(analysis, id)}

RECURSIVE create_pending_post_analysis(_, _)
create_pending_post_analysis(analysis, post_ids) ==
    IF post_ids = <<>> THEN analysis
    ELSE create_pending_post_analysis(InsertIgnorePending(analysis, Head(post_ids)),
                                      Tail(post_ids))

\* UPDATE post_analysis SET ... WHERE post_id = %s; analysis_result.get(...)
\* is None for the {} of a failed analysis.
update_post_analysis(analysis, id, analysis_result, status) ==
    {IF pa.post_id = id
     THEN [pa EXCEPT !.analysis_status = status,
                     !.llm_summary = IF analysis_result = NULL THEN NULL_TEXT
                                     ELSE analysis_result.llm_summary]
     ELSE pa : pa \in analysis}

\* cursor.rowcount > 0
update_matched(analysis, id) == \E pa \in analysis : pa.post_id = id

----------------------------------------------------------------------------
(* PostEnrichmentAnalyzer (src/src/post_enrichment.py) *)

\* analyze_single_post: the result dict for a model response.
analyze_single_post(response) ==
    IF ~response.success
    THEN [success |-> FALSE, analysis_result |-> NULL, status |-> "failed"]
    ELSE LET json_result == extract_json_from_response(response.content)
         IN  IF json_result = NULL
             THEN [success |-> FALSE, analysis_result |-> NULL, status |-> "failed"]
             ELSE [success |-> TRUE, analysis_result |-> json_result,
                   status |-> "completed"]

\* run_enrichment_analysis up to the call of process_posts_batch.
run_enrichment_analysis(r) ==
    /\ r \in runners
    /\ enricher[r].pc = "idle"
    /\ postprocessor[r].pc = "idle"
    /\ \E batch_size \in 1..MaxBatch :
        LET posts == get_posts_for_enrichment(twitter_posts, post_analysis, batch_size)
        IN  enricher' = [enricher EXCEPT ![r] =
                [IdleEnricher EXCEPT !.pc = IF posts = <<>> THEN "done" ELSE "selected",
                                     !.posts = posts,
                                     !.batch_size = batch_size]]
    /\ UNCHANGED <<rvars, cvars, twitter_posts, post_analysis, postprocessing, postprocessor,
                   llm, insight, post_insights>>

\* process_posts_batch: the placeholder rows for the whole batch.
CreatePending(r) ==
    /\ r \in runners
    /\ enricher[r].pc = "selected"
    /\ post_analysis' = create_pending_post_analysis(post_analysis, enricher[r].posts)
    /\ enricher' = [enricher EXCEPT ![r].pc = "processing"]
    /\ UNCHANGED <<rvars, cvars, twitter_posts, postprocessing, postprocessor, llm, insight, post_insights>>

\* process_posts_batch: one future completes and its result is written.
EnrichPost(r, id) ==
    /\ r \in runners
    /\ enricher[r].pc = "processing"
    /\ id \in Range(enricher[r].posts) \ enricher[r].done
    /\ \E response \in ModelResponses :
        LET result == analyze_single_post(response)
            saved == result.success /\ update_matched(post_analysis, id)
        IN  /\ post_analysis' =
                    IF result.success
                    THEN update_post_analysis(post_analysis, id, result.analysis_result,
                                              result.status)
                    ELSE update_post_analysis(post_analysis, id, NULL, "failed")
            /\ enricher' = [enricher EXCEPT
                    ![r].done = @ \cup {id},
                    ![r].success = IF saved THEN @ + 1 ELSE @,
                    ![r].failed = IF saved THEN @ ELSE @ + 1]
    /\ UNCHANGED <<rvars, cvars, twitter_posts, postprocessing, postprocessor, llm, insight, post_insights>>

\* process_posts_batch returns {'total', 'success', 'failed'}.
FinishEnrichment(r) ==
    /\ r \in runners
    /\ enricher[r].pc = "processing"
    /\ enricher[r].done = Range(enricher[r].posts)
    /\ enricher' = [enricher EXCEPT ![r].pc = "done"]
    /\ UNCHANGED <<rvars, cvars, twitter_posts, post_analysis, postprocessing, postprocessor,
                   llm, insight, post_insights>>

\* The enrichment process exits with its result.
ReturnEnrichment(r) ==
    /\ r \in runners
    /\ enricher[r].pc = "done"
    /\ enricher' = [enricher EXCEPT ![r] = IdleEnricher]
    /\ UNCHANGED <<rvars, cvars, twitter_posts, post_analysis, postprocessing, postprocessor,
                   llm, insight, post_insights>>

\* The enrichment process is stopped (killed, host restart) during a batch.
StopEnrichment(r) ==
    /\ r \in runners
    /\ enricher[r].pc \in {"selected", "processing"}
    /\ enricher' = [enricher EXCEPT ![r] = IdleEnricher]
    /\ UNCHANGED <<rvars, cvars, twitter_posts, post_analysis, postprocessing, postprocessor,
                   llm, insight, post_insights>>

\* The crawl side at rest, a table of posts already collected, and the
\* analysis side before its first run.
InitAnalysis(R) ==
    /\ now = 0
    /\ ticks = 0
    /\ twitter_users = [a \in {1} |-> NewRow(0, "high")]
    /\ twitter_posts \in Pools
    /\ job = [r \in Runners |-> IdleJob]
    /\ task = [r \in Runners |-> [a \in PoolAccounts |-> NoTask]]
    /\ last_feed = [a \in PoolAccounts |-> {}]
    /\ runners = R
    /\ AnalysisAtRest
    /\ ReportsAtRest

\* Two overlapping enrichment processes.
InitEnrich == InitAnalysis(Runners)

NextEnrich ==
    \/ \E r \in Runners : run_enrichment_analysis(r)
    \/ \E r \in Runners : CreatePending(r)
    \/ \E r \in Runners, id \in 1..MaxPosts : EnrichPost(r, id)
    \/ \E r \in Runners : FinishEnrichment(r)
    \/ \E r \in Runners : ReturnEnrichment(r)
    \/ \E r \in Runners : StopEnrichment(r)

SpecEnrich == InitEnrich /\ [][NextEnrich]_vars

----------------------------------------------------------------------------
(* TwitterPostProcessor (src/src/post_processor.py) *)

\* LEFT JOIN postprocessing pp ... WHERE tp.published_at >= cutoff AND
\* pp.post_id IS NULL AND tp.post_content IS NOT NULL ORDER BY published_at
\* DESC. The collected posts share one published_at and the order of the list
\* has no effect on how it is processed; the id order is taken.
_get_posts_to_process(posts, processed, hours_back, t) ==
    LET cutoff_time == t - hours_back * 60
        open == {post_id(p) : p \in
                    {q \in posts : /\ q.published_at >= cutoff_time
                                   /\ \A pp \in processed : pp.post_id # post_id(q)}}
    IN  OrderById(open)

\* INSERT INTO postprocessing ... ON DUPLICATE KEY UPDATE ...
_save_postprocessing_result(processed, id, interpretation, status) ==
    {pp \in processed : pp.post_id # id}
    \cup {[post_id |-> id, interpretation_text |-> interpretation, status |-> status]}

PostContent(id) ==
    (CHOOSE p \in twitter_posts : post_id(p) = id).post_content

\* _process_text_post: TRUE when the post gets as far as the save.
_text_post_saved(post_content, response) ==
    /\ text_length(post_content) >= min_content_length
    /\ response.success

\* process_posts up to the thread pools; no collected post carries media, so
\* _categorize_posts puts every post with the text posts.
process_posts(r) ==
    /\ r \in runners
    /\ postprocessor[r].pc = "idle"
    /\ enricher[r].pc = "idle"
    /\ LET posts == _get_posts_to_process(twitter_posts, postprocessing,
                                          postprocess_hours_back, now)
       IN  postprocessor' = [postprocessor EXCEPT ![r] =
                [IdlePostprocessor EXCEPT
                    !.pc = IF posts = <<>> THEN "done" ELSE "processing",
                    !.posts = posts]]
    /\ UNCHANGED <<rvars, cvars, twitter_posts, post_analysis, enricher, postprocessing,
                   llm, insight, post_insights>>

\* _process_text_posts_concurrent: one future completes.
_process_text_post(r, id) ==
    /\ r \in runners
    /\ postprocessor[r].pc = "processing"
    /\ id \in Range(postprocessor[r].posts) \ postprocessor[r].done
    /\ \E response \in ModelResponses :
        LET saved == _text_post_saved(PostContent(id), response)
        IN  /\ postprocessing' =
                    IF saved
                    THEN _save_postprocessing_result(postprocessing, id,
                                                     response.content, "success")
                    ELSE postprocessing
            /\ postprocessor' = [postprocessor EXCEPT
                    ![r].done = @ \cup {id},
                    ![r].success = IF saved THEN @ + 1 ELSE @,
                    ![r].failed = IF saved THEN @ ELSE @ + 1]
    /\ UNCHANGED <<rvars, cvars, twitter_posts, post_analysis, enricher, llm, insight, post_insights>>

\* process_posts returns {'total', 'success', 'failed'}.
FinishPostprocess(r) ==
    /\ r \in runners
    /\ postprocessor[r].pc = "processing"
    /\ postprocessor[r].done = Range(postprocessor[r].posts)
    /\ postprocessor' = [postprocessor EXCEPT ![r].pc = "done"]
    /\ UNCHANGED <<rvars, cvars, twitter_posts, post_analysis, enricher, postprocessing,
                   llm, insight, post_insights>>

\* The post-processing process exits with its result.
ReturnPostprocess(r) ==
    /\ r \in runners
    /\ postprocessor[r].pc = "done"
    /\ postprocessor' = [postprocessor EXCEPT ![r] = IdlePostprocessor]
    /\ UNCHANGED <<rvars, cvars, twitter_posts, post_analysis, enricher, postprocessing,
                   llm, insight, post_insights>>

\* One runner that starts the analysis jobs one after the other.
InitRerun == InitAnalysis({"r1"})

NextRerun ==
    \/ \E r \in Runners : run_enrichment_analysis(r)
    \/ \E r \in Runners : CreatePending(r)
    \/ \E r \in Runners, id \in 1..MaxPosts : EnrichPost(r, id)
    \/ \E r \in Runners : FinishEnrichment(r)
    \/ \E r \in Runners : ReturnEnrichment(r)
    \/ \E r \in Runners : process_posts(r)
    \/ \E r \in Runners, id \in 1..MaxPosts : _process_text_post(r, id)
    \/ \E r \in Runners : FinishPostprocess(r)
    \/ \E r \in Runners : ReturnPostprocess(r)

SpecRerun == InitRerun /\ [][NextRerun]_vars

----------------------------------------------------------------------------
(* LLMClient (src/src/llm_client.py): one model call and its retries *)

\* str(e) of the exceptions a provider request can raise.
ErrorMessages == {"Error code: 500", "Error code: 400"}

\* What the provider answers to one request: the streamed content (which can
\* be empty) or an exception.
ProviderOutcomes ==
    {[kind |-> "content", text |-> c] : c \in ModelContents \cup {""}}
    \cup {[kind |-> "error", text |-> m] : m \in ErrorMessages}

\* raise ValueError(...) on empty content
EmptyResponse == "empty response"

\* "400" in str(e)
is_bad_request(message) == message = "Error code: 400"

\* The exception of a request that did not yield content.
Raised(outcome) == IF outcome.kind = "content" THEN EmptyResponse ELSE outcome.text

Yields(outcome) == outcome.kind = "content" /\ outcome.text # ""

Succeeded(call, outcome) ==
    [call EXCEPT !.pc = "returned", !.responses = Append(@, outcome),
                 !.success = TRUE, !.content = outcome.text]

Failed(call, outcome) ==
    [call EXCEPT !.pc = "returned", !.responses = Append(@, outcome),
                 !.success = FALSE, !.error = Raised(outcome)]

Retried(call, outcome) ==
    [call EXCEPT !.responses = Append(@, outcome),
                 !.waits = Append(@, (call.attempt + 1) * 2),
                 !.attempt = @ + 1]

\* Variant of _make_request that also sleeps after the last attempt and then
\* makes one more request.
_make_request_extra(call, outcome) ==
    IF Yields(outcome) THEN Succeeded(call, outcome)
    ELSE IF call.attempt = call.max_retries THEN Failed(call, outcome)
    ELSE Retried(call, outcome)

\* One iteration of the loop of _make_request.
_make_request(call, outcome) ==
    IF Yields(outcome) THEN Succeeded(call, outcome)
    ELSE IF call.attempt = call.max_retries - 1 THEN Failed(call, outcome)
    ELSE Retried(call, outcome)

\* One iteration of the loop of call_vlm.
call_vlm(call, outcome) ==
    IF Yields(outcome) THEN Succeeded(call, outcome)
    ELSE IF is_bad_request(Raised(outcome)) THEN Failed(call, outcome)
    ELSE IF call.attempt < call.max_retries - 1 THEN Retried(call, outcome)
    ELSE Failed(call, outcome)

\* The call as it enters its retry loop.
NewCall(shape, model_name, max_retries) ==
    [NoCall EXCEPT !.pc = "attempting", !.shape = shape, !.model_name = model_name,
                   !.max_retries = max_retries]

\* call_vlm with no usable image returns before the loop.
NoImageCall(model_name, max_retries) ==
    [NewCall("vision", model_name, max_retries) EXCEPT
        !.pc = "returned", !.error = "no valid image data"]

TextModels == {"fast_model", "smart_model"}
VisionModels == {"vlm_model", "vlm_fallback_model"}

\* call_fast_model / call_smart_model enter _make_request.
StartTextCall ==
    /\ llm.pc = "none"
    /\ insight.pc = "none"
    /\ \E model_name \in TextModels, max_retries \in 1..MaxRetries :
        llm' = NewCall("text", model_name, max_retries)
    /\ UNCHANGED <<rvars, cvars, twitter_posts, post_analysis, enricher, postprocessing,
                   postprocessor, insight, post_insights>>

\* call_vlm is entered with a list of image data.
StartVisionCall ==
    /\ llm.pc = "none"
    /\ insight.pc = "none"
    /\ \E model_name \in VisionModels, max_retries \in 1..MaxRetries,
          valid_images \in BOOLEAN :
        llm' = IF valid_images THEN NewCall("vision", model_name, max_retries)
               ELSE NoImageCall(model_name, max_retries)
    /\ UNCHANGED <<rvars, cvars, twitter_posts, post_analysis, enricher, postprocessing,
                   postprocessor, insight, post_insights>>

\* One provider request of the call in flight and the handling of its outcome.
Request ==
    /\ llm.pc = "attempting"
    /\ \E outcome \in ProviderOutcomes :
        llm' = IF llm.shape = "text" THEN _make_request(llm, outcome)
               ELSE call_vlm(llm, outcome)
    /\ UNCHANGED <<rvars, cvars, twitter_posts, post_analysis, enricher, postprocessing,
                   postprocessor, insight, post_insights>>

\* The caller has taken the result dict.
ResultTaken ==
    /\ llm.pc = "returned"
    /\ insight.pc = "none"
    /\ llm' = NoCall
    /\ UNCHANGED <<rvars, cvars, twitter_posts, post_analysis, enricher, postprocessing,
                   postprocessor, insight, post_insights>>

InitCall == InitAnalysis({"r1"})

NextCall ==
    \/ StartTextCall
    \/ StartVisionCall
    \/ Request
    \/ ResultTaken

SpecCall == InitCall /\ [][NextCall]_vars

----------------------------------------------------------------------------
(* PostInsightsAnalyzer (src/src/post_insights_analysis.py) *)

\* The image URLs _extract_image_urls can find on a post.
ImageUrls == {"i1", "i2"}

\* DatabaseManager.get_posts_for_insight_analysis: the posts with no insight
\* row or a pending one, oldest id first, at most limit.
get_posts_for_insight_analysis(posts, insights, limit) ==
    LET open == {post_id(p) : p \in
                    {q \in posts : \A pi \in insights :
                        pi.post_id = post_id(q) => pi.status = "pending"}}
    IN  Prefix(OrderById(open), limit)

InsightRow(id, fields, status) ==
    [post_id |-> id, status |-> status,
     deep_interpretation |-> fields.deep_interpretation,
     model_name |-> fields.model_name]

\* DatabaseManager.save_post_insight: upsert of the row of the post.
save_post_insight(insights, id, fields, status) ==
    {pi \in insights : pi.post_id # id} \cup {InsightRow(id, fields, status)}

\* The placeholders the claim of a batch leaves.
RECURSIVE claim_pending(_, _)
claim_pending(insights, post_ids) ==
    IF post_ids = <<>> THEN insights
    ELSE claim_pending(
            save_post_insight(insights, Head(post_ids),
                              [deep_interpretation |-> NULL_TEXT,
                               model_name |-> NULL_TEXT], "pending"),
            Tail(post_ids))

\* PostInsightsAnalyzer._prepare_image_data: the URLs handed to the model.
_prepare_image_data(image_urls, use_image_url, image_cache) ==
    IF use_image_url THEN image_urls ELSE image_urls \cap image_cache

\* {'error': error_msg} of _analyze_single_post
NoImageData == "no valid image data"
BothVlmFailed == "primary and fallback VLM failed"
LlmFailed == "LLM call failed"
NoValidJson == "no valid JSON in the LLM response"

CallResult(call) ==
    [model_name |-> call.model_name, success |-> call.success,
     content |-> call.content]

\* run_analysis, as_completed loop body: the result of _analyze_single_post
\* is saved.
Saved(error, analysis_result, model_name) ==
    /\ post_insights' =
            IF error # ""
            THEN save_post_insight(post_insights, insight.post_id,
                                   [deep_interpretation |-> error,
                                    model_name |-> NULL_TEXT], "failed")
            ELSE save_post_insight(post_insights, insight.post_id,
                                   [deep_interpretation |->
                                        analysis_result.deep_interpretation,
                                    model_name |-> model_name], "completed")

\* Variant of Concluded that asks the fallback vision model again when the
\* output cannot be parsed.
ConcludedRetrying(results) ==
    LET response == results[Len(results)]
        analysis_result == _robust_json_parser(response.content)
    IN  IF analysis_result = NULL /\ Len(results) < 2
        THEN /\ llm' = NewCall("vision", "vlm_fallback_model", default_max_retries)
             /\ insight' = [insight EXCEPT !.pc = "fallback", !.results = results]
             /\ UNCHANGED post_insights
        ELSE /\ llm' = NoCall
             /\ IF analysis_result = NULL
                THEN /\ Saved(NoValidJson, NULL, response.model_name)
                     /\ insight' = [insight EXCEPT !.pc = "saved", !.results = results,
                                                   !.failed = @ + 1]
                ELSE /\ Saved("", analysis_result, response.model_name)
                     /\ insight' = [insight EXCEPT !.pc = "saved", !.results = results,
                                                   !.success = @ + 1]

\* _analyze_single_post from "analysis_result = self._robust_json_parser(...)"
\* and the save of its result.
Concluded(results) ==
    LET response == results[Len(results)]
        analysis_result == _robust_json_parser(response.content)
    IN  /\ llm' = NoCall
        /\ IF analysis_result = NULL
           THEN /\ Saved(NoValidJson, NULL, response.model_name)
                /\ insight' = [insight EXCEPT !.pc = "saved", !.results = results,
                                              !.failed = @ + 1]
           ELSE /\ Saved("", analysis_result, response.model_name)
                /\ insight' = [insight EXCEPT !.pc = "saved", !.results = results,
                                              !.success = @ + 1]

\* The model call of the post failed for good.
GaveUp(results, error) ==
    /\ llm' = NoCall
    /\ Saved(error, NULL, NULL_TEXT)
    /\ insight' = [insight EXCEPT !.pc = "saved", !.results = results,
                                  !.failed = @ + 1]

\* run_analysis up to the thread pool.
run_analysis ==
    /\ insight.pc = "none"
    /\ llm.pc = "none"
    /\ \E batch_size \in 1..MaxBatch :
        LET posts == get_posts_for_insight_analysis(twitter_posts, post_insights,
                                                    batch_size)
        IN  /\ posts # <<>>
            /\ post_insights' = claim_pending(post_insights, posts)
            /\ insight' = [NoInsight EXCEPT !.pc = "dispatch", !.posts = posts]
    /\ UNCHANGED <<rvars, cvars, twitter_posts, post_analysis, enricher, postprocessing,
                   postprocessor, llm>>

\* _analyze_single_post up to its first model call, for the next post of the
\* batch (the posts of a batch are analysed independently of each other).
_analyze_single_post ==
    /\ insight.pc = "dispatch"
    /\ \E image_urls \in SUBSET ImageUrls, use_image_url \in BOOLEAN :
       \E image_cache \in SUBSET image_urls :
        LET image_data_list == _prepare_image_data(image_urls, use_image_url,
                                                   image_cache)
            started == [insight EXCEPT !.post_id = Head(insight.posts),
                                       !.image_urls = image_urls,
                                       !.image_data = image_data_list,
                                       !.results = <<>>]
        IN  IF image_urls # {}
            THEN IF image_data_list = {}
                 THEN /\ post_insights' =
                            save_post_insight(post_insights, started.post_id,
                                              [deep_interpretation |-> NoImageData,
                                               model_name |-> NULL_TEXT], "failed")
                      /\ insight' = [started EXCEPT !.pc = "saved", !.failed = @ + 1]
                      /\ UNCHANGED llm
                 ELSE /\ llm' = NewCall("vision", "vlm_model", default_max_retries)
                      /\ insight' = [started EXCEPT !.pc = "primary"]
                      /\ UNCHANGED post_insights
            ELSE /\ llm' = NewCall("text", "fast_model", default_max_retries)
                 /\ insight' = [started EXCEPT !.pc = "text"]
                 /\ UNCHANGED post_insights
    /\ UNCHANGED <<rvars, cvars, twitter_posts, post_analysis, enricher, postprocessing,
                   postprocessor>>

\* Variant of PrimaryReturned that gives up when the primary model fails.
PrimaryReturnedNoFallback ==
    /\ insight.pc = "primary"
    /\ llm.pc = "returned"
    /\ LET results == Append(insight.results, CallResult(llm))
       IN  IF ~llm.success THEN GaveUp(results, BothVlmFailed)
           ELSE Concluded(results)
    /\ UNCHANGED <<rvars, cvars, twitter_posts, post_analysis, enricher, postprocessing,
                   postprocessor>>

\* The primary vision call has returned.
PrimaryReturned ==
    /\ insight.pc = "primary"
    /\ llm.pc = "returned"
    /\ LET results == Append(insight.results, CallResult(llm))
       IN  IF ~llm.success
           THEN /\ llm' = NewCall("vision", "vlm_fallback_model", default_max_retries)
                /\ insight' = [insight EXCEPT !.pc = "fallback", !.results = results]
                /\ UNCHANGED post_insights
           ELSE Concluded(results)
    /\ UNCHANGED <<rvars, cvars, twitter_posts, post_analysis, enricher, postprocessing,
                   postprocessor>>

\* The fallback vision call has returned.
FallbackReturned ==
    /\ insight.pc = "fallback"
    /\ llm.pc = "returned"
    /\ LET results == Append(insight.results, CallResult(llm))
       IN  IF ~llm.success THEN GaveUp(results, BothVlmFailed)
           ELSE Concluded(results)
    /\ UNCHANGED <<rvars, cvars, twitter_posts, post_analysis, enricher, postprocessing,
                   postprocessor>>

\* The text call has returned.
TextReturned ==
    /\ insight.pc = "text"
    /\ llm.pc = "returned"
    /\ LET results == Append(insight.results, CallResult(llm))
       IN  IF ~llm.success THEN GaveUp(results, LlmFailed)
           ELSE Concluded(results)
    /\ UNCHANGED <<rvars, cvars, twitter_posts, post_analysis, enricher, postprocessing,
                   postprocessor>>

\* The next future of the batch, or the return of run_analysis.
NextPost ==
    /\ insight.pc = "saved"
    /\ insight' = IF Tail(insight.posts) = <<>> THEN NoInsight
                  ELSE [NoInsight EXCEPT !.pc = "dispatch",
                                         !.posts = Tail(insight.posts),
                                         !.success = insight.success,
                                         !.failed = insight.failed]
    /\ UNCHANGED <<rvars, cvars, twitter_posts, post_analysis, enricher, postprocessing,
                   postprocessor, llm, post_insights>>

InitInsight == InitAnalysis({"r1"})

NextInsight ==
    \/ run_analysis
    \/ _analyze_single_post
    \/ Request
    \/ PrimaryReturned
    \/ FallbackReturned
    \/ TextReturned
    \/ NextPost

SpecInsight == InitInsight /\ [][NextInsight]_vars

----------------------------------------------------------------------------
(* Value score (src/src/scoring.py). Scores, weights and bonuses are decimal  *)
(* numbers; they are kept here as integers in units of 0.00001.               *)

ScoreUnit == 100000

\* None of a column that is NULL.
None == "None"

\* 'http' in content, and every other substring test
Contains(text, sub) ==
    \E i \in 1..(Len(text) - Len(sub) + 1) : SubSeq(text, i, i + Len(sub) - 1) = sub

\* The rows get_enriched_posts_for_report can hand to the scorer.
ScoredPosts ==
    [content_type : {"news", None},
     post_tag : {"ai", "", None},
     post_content : {"", "gm", "see http://t.co/x"},
     deep_interpretation : {"", "insight"},
     has_media : {0, 1},
     media_urls : {None, "[]", "[u]"},
     post_type : {"Original", "LinkShare"}]

\* get_scoring_config with every weight, bonus and table entry 0 and base 1.
ZeroConfig ==
    [base_score |-> ScoreUnit,
     content_type_scores |-> [t \in {"news"} |-> 0],
     tag_scores |-> [t \in {"ai"} |-> 0],
     post_length_weight |-> 0,
     interpretation_length_weight |-> 0,
     media_bonus |-> 0,
     link_bonus |-> 0]

\* The defaults of get_scoring_config (length weights 0.01, media bonus 2.0,
\* link bonus 1.0) with tables of one entry.
DefaultConfig ==
    [base_score |-> ScoreUnit,
     content_type_scores |-> [t \in {"news"} |-> 3 * ScoreUnit],
     tag_scores |-> [t \in {"ai"} |-> 2 * ScoreUnit],
     post_length_weight |-> 1000,
     interpretation_length_weight |-> 1000,
     media_bonus |-> 2 * ScoreUnit,
     link_bonus |-> ScoreUnit]

\* A configuration with length weights of 0.00002 and 0.00004.
FineConfig ==
    [DefaultConfig EXCEPT !.post_length_weight = 2,
                          !.interpretation_length_weight = 4]

ScoringConfigs == {ZeroConfig, DefaultConfig, FineConfig}

\* round(score, 4): to the nearest multiple of 0.0001. On a tie Python rounds
\* the binary float, which lies on one side of the decimal tie; the even digit
\* is taken here, and no score of ScoringConfigs is a tie.
round4(score) ==
    LET r == score % 10
        down == score - r
    IN  IF r < 5 THEN down
        ELSE IF r > 5 THEN down + 10
        ELSE IF (down \div 10) % 2 = 0 THEN down ELSE down + 10

\* Variant of calculate_value_score that looks at has_media only and never
\* at media_urls.
calculate_value_score_flag_only(post, config) ==
    LET type_score == IF post.content_type \in DOMAIN config.content_type_scores
                      THEN config.content_type_scores[post.content_type] ELSE 0
        tag_score == IF post.post_tag \notin {None, ""}
                        /\ post.post_tag \in DOMAIN config.tag_scores
                     THEN config.tag_scores[post.post_tag] ELSE 0
        is_link == post.post_type = "LinkShare" \/ Contains(post.post_content, "http")
    IN  round4(config.base_score + type_score + tag_score
               + Len(post.post_content) * config.post_length_weight
               + Len(post.deep_interpretation) * config.interpretation_length_weight
               + (IF post.has_media # 0 THEN config.media_bonus ELSE 0)
               + (IF is_link THEN config.link_bonus ELSE 0))

\* calculate_value_score
calculate_value_score(post, config) ==
    LET type_score == IF post.content_type \in DOMAIN config.content_type_scores
                      THEN config.content_type_scores[post.content_type] ELSE 0
        tag_score == IF post.post_tag \notin {None, ""}
                        /\ post.post_tag \in DOMAIN config.tag_scores
                     THEN config.tag_scores[post.post_tag] ELSE 0
        has_media == IF post.has_media # 0 THEN TRUE
                     ELSE post.media_urls \notin {None, "", "[]", "null"}
        is_link == post.post_type = "LinkShare" \/ Contains(post.post_content, "http")
    IN  round4(config.base_score + type_score + tag_score
               + Len(post.post_content) * config.post_length_weight
               + Len(post.deep_interpretation) * config.interpretation_length_weight
               + (IF has_media THEN config.media_bonus ELSE 0)
               + (IF is_link THEN config.link_bonus ELSE 0))

\* The crawl and analysis jobs at rest and no report saved yet.
ReportInit ==
    /\ now = 0
    /\ ticks = 0
    /\ twitter_users = [a \in {1} |-> NewRow(0, "high")]
    /\ twitter_posts = {}
    /\ job = [r \in Runners |-> IdleJob]
    /\ task = [r \in Runners |-> [a \in PoolAccounts |-> NoTask]]
    /\ last_feed = [a \in PoolAccounts |-> {}]
    /\ runners = {"r1"}
    /\ AnalysisAtRest
    /\ intelligence_reports = <<>>

\* A post and a configuration are handed to the scorer.
InitScore ==
    /\ ReportInit
    /\ \E post \in ScoredPosts, config \in ScoringConfigs :
        report = [pc |-> "post", post |-> post, config |-> config, value_score |-> 0]

\* post['value_score'] = calculate_value_score(post, self.scoring_config)
Score ==
    /\ report.pc = "post"
    /\ report' = [report EXCEPT !.pc = "scored",
                                !.value_score = calculate_value_score(report.post,
                                                                      report.config)]
    /\ UNCHANGED <<cvars, twitter_posts, avars, intelligence_reports>>

SpecScore == InitScore /\ [][Score]_vars

----------------------------------------------------------------------------
(* Selection of the posts of a report (src/src/intelligence_reports.py) *)

PlainPost ==
    [content_type |-> None, post_tag |-> None, post_content |-> "gm",
     deep_interpretation |-> "", has_media |-> 0, media_urls |-> None,
     post_type |-> "Original"]

\* Posts of three different default scores.
RankedPosts ==
    {PlainPost,
     [PlainPost EXCEPT !.has_media = 1],
     [PlainPost EXCEPT !.post_tag = "ai", !.post_type = "LinkShare"]}

\* The row with id i of the candidate pool.
Candidate(i, post, published_at) ==
    [id |-> i, post |-> post, published_at |-> published_at, value_score |-> 0]

\* get_enriched_posts_for_report: the candidate pools, ORDER BY published_at
\* DESC, ids in no particular order.
CandidatePools ==
    {pool \in SeqsUpTo([id : 1..MaxCandidates, post : RankedPosts,
                        published_at : {10, 20}, value_score : {0}], MaxCandidates) :
        /\ \A i, j \in 1..Len(pool) : i < j =>
                /\ pool[i].id # pool[j].id
                /\ pool[i].published_at >= pool[j].published_at
        /\ \A i \in 1..Len(pool) : pool[i].id <= Len(pool)}

\* for post in candidate_posts: post['value_score'] = calculate_value_score(...)
RECURSIVE scored(_, _)
scored(posts, config) ==
    IF posts = <<>> THEN <<>>
    ELSE <<[Head(posts) EXCEPT !.value_score =
                calculate_value_score(Head(posts).post, config)]>>
         \o scored(Tail(posts), config)

\* (value_score, published_at) of a is greater than that of b.
KeyGreater(a, b) ==
    \/ a.value_score > b.value_score
    \/ a.value_score = b.value_score /\ a.published_at > b.published_at

\* list.sort(key=..., reverse=True): descending and stable, posts of equal key
\* keep their order.
RECURSIVE insert_reverse(_, _)
insert_reverse(sorted, post) ==
    IF sorted = <<>> THEN <<post>>
    ELSE IF KeyGreater(post, Head(sorted)) THEN <<post>> \o sorted
    ELSE <<Head(sorted)>> \o insert_reverse(Tail(sorted), post)

RECURSIVE sort_reverse(_)
sort_reverse(posts) ==
    IF posts = <<>> THEN <<>>
    ELSE insert_reverse(sort_reverse(SubSeq(posts, 1, Len(posts) - 1)),
                        posts[Len(posts)])

\* Variant of _fetch_and_score_posts that cuts the pool to limit before it
\* sorts.
_fetch_and_score_posts_cut_first(candidate_posts, limit, config) ==
    sort_reverse(Prefix(scored(candidate_posts, config), limit))

\* _fetch_and_score_posts after the candidate pool has been read.
_fetch_and_score_posts(candidate_posts, limit, config) ==
    IF candidate_posts = <<>> THEN <<>>
    ELSE Prefix(sort_reverse(scored(candidate_posts, config)), limit)

\* A candidate pool, a limit and a scoring configuration.
InitRank ==
    /\ ReportInit
    /\ \E pool \in CandidatePools, limit \in 0..MaxCandidates,
          config \in {ZeroConfig, DefaultConfig} :
        report = [pc |-> "candidates", candidate_posts |-> pool, limit |-> limit,
                  config |-> config, final_posts |-> <<>>]

RankPosts ==
    /\ report.pc = "candidates"
    /\ report' = [report EXCEPT
            !.pc = "ranked",
            !.final_posts = _fetch_and_score_posts(report.candidate_posts,
                                                   report.limit, report.config)]
    /\ UNCHANGED <<cvars, twitter_posts, avars, intelligence_reports>>

SpecRank == InitRank /\ [][RankPosts]_vars

----------------------------------------------------------------------------
(* Context packing (src/src/intelligence_reports.py). The Chinese literals    *)
(* of the block format are written with ASCII literals of the same length.    *)

\* The selected posts as the packer reads them.
PackedPosts ==
    [user_id : {"@alice"},
     post_url : {"https://x.com/alice/1"},
     post_content : {"gm", "![](https://pbs.twimg.com/a) chart"},
     deep_interpretation : {"", "insight"},
     llm_summary : {"summary"},
     has_media : {0, 1},
     media_urls : {"[u]"}]

\* str(raw_user_handle).lstrip('@') or 'unknown'
lstrip_at(handle) ==
    IF handle = "@alice" THEN "alice" ELSE handle

\* _post_has_media for rows that carry the has_media flag.
_post_has_media(post_data) == post_data.has_media # 0

\* len(json.loads(media_urls))
media_list_length(media_urls) == IF media_urls = "[u]" THEN 1 ELSE 0

\* f"[附{media_count}张图]"
img_note(media_count) == "[+" \o ToString(media_count) \o "im]"

\* _clean_image_urls_from_content: markdown images and image URLs removed,
\* the rest stripped, the image note put in front.
_clean_image_urls_from_content(content, media_count) ==
    LET cleaned == IF content = "![](https://pbs.twimg.com/a) chart" THEN "chart"
                   ELSE content
    IN  IF content = "" THEN ""
        ELSE IF media_count > 0 THEN img_note(media_count) \o "\n" \o cleaned
        ELSE cleaned

\* _truncate for texts without a sentence end in their last 30 percent.
_truncate(text, max_len) ==
    IF Len(text) <= max_len THEN text ELSE SubSeq(text, 1, max_len) \o "\n..."

\* "→ 洞察: " and "无深度洞察"
InsightLabel == "=> i: "
NoDeepInsight == "none."

\* The block of the i-th post.
Block(i, post_data, context_mode) ==
    LET sid == "T" \o ToString(i)
        user_handle == lstrip_at(post_data.user_id)
        has_media == _post_has_media(post_data)
        media_count == IF has_media THEN media_list_length(post_data.media_urls) ELSE 0
        original_content == _clean_image_urls_from_content(post_data.post_content,
                                                           media_count)
        include_deep == ~(context_mode = "light" /\ ~has_media)
        deep_interpretation == IF post_data.deep_interpretation = "" THEN NoDeepInsight
                               ELSE post_data.deep_interpretation
    IN  IF include_deep
        THEN "[" \o sid \o " @" \o user_handle \o "]\n" \o original_content
             \o "\n" \o InsightLabel \o deep_interpretation
        ELSE "[" \o sid \o " @" \o user_handle \o "]\n" \o original_content

\* The entry of the sources list of the i-th post.
Source(i, post_data) ==
    LET has_media == _post_has_media(post_data)
        media_count == IF has_media THEN media_list_length(post_data.media_urls) ELSE 0
        original_content == _clean_image_urls_from_content(post_data.post_content,
                                                           media_count)
    IN  [sid |-> "T" \o ToString(i),
         title |-> _truncate(post_data.llm_summary, 100),
         link |-> post_data.post_url,
         nickname |-> lstrip_at(post_data.user_id),
         excerpt |-> _truncate(original_content, 120)]

\* "\n\n---\n\n".join(context_parts)
RECURSIVE join(_, _)
join(separator, parts) ==
    IF parts = <<>> THEN ""
    ELSE IF Len(parts) = 1 THEN parts[1]
    ELSE parts[1] \o separator \o join(separator, Tail(parts))

\* The loop of format_enriched_posts_for_smart_llm from post i on.
RECURSIVE pack(_, _, _, _, _, _, _)
pack(enriched_posts, i, context_mode, max_content_length, context_parts, sources, total_chars) ==
    IF i > Len(enriched_posts)
    THEN [context_parts |-> context_parts, sources |-> sources]
    ELSE LET block == Block(i, enriched_posts[i], context_mode)
         IN  IF total_chars + Len(block) > max_content_length
             THEN [context_parts |-> context_parts, sources |-> sources]
             ELSE pack(enriched_posts, i + 1, context_mode, max_content_length,
                       Append(context_parts, block),
                       Append(sources, Source(i, enriched_posts[i])),
                       total_chars + Len(block))

\* Variant of format_enriched_posts_for_smart_llm that stops when the limit
\* is reached and not when it would be passed.
format_enriched_posts_strict(enriched_posts, context_mode, max_content_length) ==
    LET packed == pack(enriched_posts, 1, context_mode, max_content_length - 1,
                       <<>>, <<>>, 0)
    IN  [context |-> join("\n\n---\n\n", packed.context_parts),
         sources |-> packed.sources]

\* format_enriched_posts_for_smart_llm: the context string and the sources.
format_enriched_posts_for_smart_llm(enriched_posts, context_mode, max_content_length) ==
    LET packed == pack(enriched_posts, 1, context_mode, max_content_length,
                       <<>>, <<>>, 0)
    IN  [context |-> join("\n\n---\n\n", packed.context_parts),
         sources |-> packed.sources]

\* The selected posts, the interpretation mode and the context limit.
InitPack ==
    /\ ReportInit
    /\ \E posts \in SeqsUpTo(PackedPosts, MaxPacked), context_mode \in {"light", "full"},
          max_content_length \in 0..MaxContext :
        report = [pc |-> "selected", enriched_posts |-> posts,
                  context_mode |-> context_mode,
                  max_content_length |-> max_content_length,
                  context |-> "", sources |-> <<>>]

PackContext ==
    /\ report.pc = "selected"
    /\ LET formatted == format_enriched_posts_for_smart_llm(
                            report.enriched_posts, report.context_mode,
                            report.max_content_length)
       IN  report' = [report EXCEPT !.pc = "packed",
                                    !.context = formatted.context,
                                    !.sources = formatted.sources]
    /\ UNCHANGED <<cvars, twitter_posts, avars, intelligence_reports>>

SpecPack == InitPack /\ [][PackContext]_vars

----------------------------------------------------------------------------
(* Report generation (src/src/intelligence_reports.py): one run fans out to   *)
(* the report models, every model writes its own report.                      *)

\* Model output as a sequence of pieces: plain text, and bracketed spans
\* "[label: id, id]".
Text(text) == [kind |-> "text", label |-> "", ids |-> <<>>, text |-> text]
Span(label, ids) == [kind |-> "span", label |-> label, ids |-> ids, text |-> ""]

LlmOutputs ==
    {<<Text("brief"), Span("Source", <<"T1">>)>>,
     <<Span("Sources", <<"T1", "T9">>)>>,
     <<Span("Ref", <<"T1">>), Text("brief")>>}

\* r'\[Sources?:\s*[T\d\s,]+\]'
source_pattern(piece) ==
    /\ piece.kind = "span"
    /\ piece.label \in {"Source", "Sources"}
    /\ \A i \in 1..Len(piece.ids) : piece.ids[i] \in {"T1", "T2", "T9"}

\* _clean_llm_output_for_notion: the brackets of every span that is not a
\* source reference become full-width brackets.
_clean_llm_output_for_notion(llm_output) ==
    [i \in 1..Len(llm_output) |->
        IF llm_output[i].kind = "span" /\ ~source_pattern(llm_output[i])
        THEN [llm_output[i] EXCEPT !.kind = "escaped"]
        ELSE llm_output[i]]

\* source_link_map of _enhance_source_links.
source_link_map(sources) == {<<sources[i].sid, sources[i].link>> : i \in 1..Len(sources)}

Linked(sid, link) == "[" \o sid \o "](" \o link \o ")"

\* replace_source_refs of _enhance_source_links: every id of a source
\* reference becomes a link when the sources hold it and stays as it is
\* otherwise.
replace_source_refs(piece, sources) ==
    [kind |-> "citation", label |-> "Source", text |-> "",
     ids |-> [i \in 1..Len(piece.ids) |->
                IF \E e \in source_link_map(sources) : e[1] = piece.ids[i]
                THEN Linked(piece.ids[i],
                            (CHOOSE e \in source_link_map(sources) : e[1] = piece.ids[i])[2])
                ELSE piece.ids[i]]]

_enhance_source_links(report_content, sources) ==
    [i \in 1..Len(report_content) |->
        IF source_pattern(report_content[i])
        THEN replace_source_refs(report_content[i], sources)
        ELSE report_content[i]]

\* _render_sources_section
_render_sources_section(sources) ==
    [kind |-> "sources_section", label |-> "", text |-> "",
     ids |-> [i \in 1..Len(sources) |-> sources[i].sid]]

\* The report body of one model: header, cleaned output, sources section
\* and footer, with the source references enhanced.
ReportContent(display_name, llm_output, sources) ==
    _enhance_source_links(
        <<Text(display_name)>> \o _clean_llm_output_for_notion(llm_output)
            \o <<_render_sources_section(sources), Text("footer")>>,
        sources)

\* The values of the report_type column.
ReportTypes == {"daily", "weekly", "monthly_kol"}

\* The report type each flow saves its reports with.
report_type_of(track) ==
    CASE track = "intelligence" -> "daily"
      [] track = "light" -> "daily_light"
      [] track = "deep" -> "daily_deep"

\* save_intelligence_report: the rows and the value returned. The insert
\* fails when the connection does, and a report_type outside the ENUM is
\* rejected in strict SQL mode and stored as '' otherwise.
save_intelligence_report(rows, report_type, title, content, db, sql_strict) ==
    IF db = "error" \/ (report_type \notin ReportTypes /\ sql_strict)
    THEN [rows |-> rows, saved |-> FALSE]
    ELSE [rows |-> Append(rows,
                          [report_type |-> IF report_type \in ReportTypes
                                           THEN report_type ELSE "",
                           report_title |-> title,
                           report_content |-> content]),
          saved |-> TRUE]

\* _get_report_models: the configured models without repetitions.
RECURSIVE _get_report_models(_)
_get_report_models(raw_models) ==
    IF raw_models = <<>> THEN <<>>
    ELSE LET models == _get_report_models(SubSeq(raw_models, 1, Len(raw_models) - 1))
             model_name == raw_models[Len(raw_models)]
         IN  IF \E i \in 1..Len(models) : models[i] = model_name
             THEN models ELSE Append(models, model_name)

RawModels ==
    {raw \in SeqsUpTo({"m1", "m2"}, MaxModels) :
        \A i \in 1..Len(raw) : i > 1 => raw[i] = "m2" \/ raw[i - 1] = "m1"}

\* Results of one model task.
PendingTask == [kind |-> "pending", model |-> None, error |-> None,
                report_content |-> <<>>]
RaisedTask(model_name) ==
    [kind |-> "raised", model |-> model_name, error |-> "exception",
     report_content |-> <<>>]
FailedTask(model_name) ==
    [kind |-> "failed", model |-> model_name, error |-> "llm call failed",
     report_content |-> <<>>]
ModelReport(model_name, content) ==
    [kind |-> "report", model |-> model_name, error |-> None,
     report_content |-> content]

\* _create_error_response
_create_error_response(error_msg) ==
    [success |-> FALSE, error |-> error_msg, model_reports |-> <<>>,
     failures |-> <<>>]

NoResult == [success |-> FALSE, error |-> "not run", model_reports |-> <<>>,
             failures |-> <<>>]

\* The post every report run of the model selects.
ReportPost ==
    [user_id |-> "@alice", post_url |-> "https://x.com/alice/1",
     post_content |-> "gm", deep_interpretation |-> "insight",
     llm_summary |-> "summary", has_media |-> 0, media_urls |-> "[u]"]

InitReport ==
    /\ ReportInit
    /\ \E flow \in {"intelligence", "light", "deep", "dual"},
          posts \in SeqsUpTo({ReportPost}, MaxPacked),
          max_content_length \in {Len(Block(1, ReportPost, "light")), MaxContext},
          raw_models \in RawModels, sql_strict \in BOOLEAN :
        report = [pc |-> "start", flow |-> flow,
                  track |-> IF flow = "dual" THEN "light" ELSE flow,
                  enriched_posts |-> posts, context_mode |-> "light",
                  max_content_length |-> max_content_length,
                  raw_models |-> raw_models, sql_strict |-> sql_strict,
                  sources |-> <<>>, models_to_generate |-> <<>>,
                  task_results |-> <<>>, rows_before |-> 0,
                  light_reports |-> NoResult, deep_report |-> NoResult,
                  result |-> NoResult, success |-> TRUE]

\* The result of a flow that returned, and for the dual flow the step of
\* run_dual_report_generation that follows the call.
Returned(result) ==
    IF report.flow # "dual"
    THEN [report EXCEPT !.pc = "done", !.result = result, !.success = result.success]
    ELSE IF report.track = "light"
    THEN [report EXCEPT !.pc = "start", !.track = "deep", !.result = result,
                        !.light_reports = result,
                        !.success = IF result.success THEN @ ELSE FALSE]
    ELSE [report EXCEPT !.pc = "done", !.result = result, !.deep_report = result,
                        !.success = IF result.success THEN @ ELSE FALSE]

\* generate_intelligence_report, generate_light_reports and
\* generate_deep_report up to the start of the model tasks.
StartReport ==
    /\ report.pc = "start"
    /\ LET formatted == format_enriched_posts_for_smart_llm(
                            report.enriched_posts, report.context_mode,
                            report.max_content_length)
           models == _get_report_models(report.raw_models)
       IN  report' =
             IF report.enriched_posts = <<>>
             THEN Returned(_create_error_response("no posts"))
             ELSE IF models = <<>>
             THEN Returned(_create_error_response("no models"))
             ELSE [report EXCEPT !.pc = "fanout",
                                 !.sources = formatted.sources,
                                 !.models_to_generate = models,
                                 !.task_results = [i \in 1..Len(models) |-> PendingTask],
                                 !.rows_before = Len(intelligence_reports)]
    /\ UNCHANGED <<cvars, twitter_posts, avars, intelligence_reports>>

\* The task of one model fails before it returns.
TaskRaises(i) ==
    /\ report.pc = "fanout"
    /\ report.task_results[i] = PendingTask
    /\ report' = [report EXCEPT
                    !.task_results[i] = RaisedTask(report.models_to_generate[i])]
    /\ UNCHANGED <<cvars, twitter_posts, avars, intelligence_reports>>

\* _generate_report_for_model_sync and its light and deep forms: the model
\* call failed.
ModelCallFails(i) ==
    /\ report.pc = "fanout"
    /\ report.task_results[i] = PendingTask
    /\ report' = [report EXCEPT
                    !.task_results[i] = FailedTask(report.models_to_generate[i])]
    /\ UNCHANGED <<cvars, twitter_posts, avars, intelligence_reports>>

\* _generate_report_for_model_sync and its light and deep forms: the model
\* answered, the report is assembled and saved.
GenerateReport(i) ==
    /\ report.pc = "fanout"
    /\ report.task_results[i] = PendingTask
    /\ \E llm_output \in LlmOutputs, db \in {"ok", "error"} :
        LET model_name == report.models_to_generate[i]
            report_content == ReportContent(model_name, llm_output, report.sources)
            stored == save_intelligence_report(
                          intelligence_reports, report_type_of(report.track),
                          model_name, report_content, db, report.sql_strict)
        IN  /\ intelligence_reports' = stored.rows
            /\ report' = [report EXCEPT
                            !.task_results[i] = ModelReport(model_name, report_content)]
    /\ UNCHANGED <<cvars, twitter_posts, avars>>

\* The loop over the gathered task results.
model_reports_of(task_results) ==
    SelectSeq(task_results, LAMBDA r : r.kind = "report")

failures_of(task_results) ==
    LET failed == SelectSeq(task_results, LAMBDA r : r.kind \in {"raised", "failed"})
    IN  [i \in 1..Len(failed) |-> [model |-> failed[i].model, error |-> failed[i].error]]

\* Collection that leaves out the tasks that raised.
CollectedReturned(task_results) ==
    LET returned == SelectSeq(task_results, LAMBDA r : r.kind # "raised")
        model_reports == model_reports_of(returned)
    IN  [success |-> Len(model_reports) > 0, error |-> None,
         model_reports |-> model_reports, failures |-> failures_of(returned)]

\* The result built from the gathered task results.
Collected(task_results) ==
    LET model_reports == model_reports_of(task_results)
    IN  [success |-> Len(model_reports) > 0, error |-> None,
         model_reports |-> model_reports, failures |-> failures_of(task_results)]

\* All tasks are gathered and the flow returns its result.
Collect ==
    /\ report.pc = "fanout"
    /\ \A i \in 1..Len(report.task_results) : report.task_results[i] # PendingTask
    /\ report' = Returned(Collected(report.task_results))
    /\ UNCHANGED <<cvars, twitter_posts, avars, intelligence_reports>>

NextReport ==
    \/ StartReport
    \/ \E i \in 1..MaxModels :
        /\ i <= Len(report.task_results)
        /\ (TaskRaises(i) \/ ModelCallFails(i) \/ GenerateReport(i))
    \/ Collect

SpecReport == InitReport /\ [][NextReport]_vars

----------------------------------------------------------------------------
(* One account from the gateway answer to its mark: crawl_user_posts          *)
(* (src/src/crawler.py) and process_single_user (src/src/processor.py).       *)

\* What the request of the feed of an account can end in: no answer, an
\* error status, a body that is no well-formed feed, a feed.
GatewayAnswers == {"network_error", "http_error", "malformed_feed", "feed"}

\* What feedparser makes of the body: the entries of a feed, and of a
\* malformed body the entries it could read before the error, with the
\* bozo flag set.
feedparser_parse(answer, entries) ==
    [bozo |-> answer = "malformed_feed",
     entries |-> IF answer = "malformed_feed" THEN Prefix(entries, Len(entries) - 1)
                 ELSE entries]

\* crawl_user_posts: None (failed) for a request exception, the parsed
\* entries otherwise; the bozo flag is logged only.
crawl_user_posts(answer, entries) ==
    IF answer \in {"network_error", "http_error"}
    THEN [failed |-> TRUE, posts |-> <<>>]
    ELSE [failed |-> FALSE, posts |-> feedparser_parse(answer, entries).entries]

\* One runner is about to fetch an account of the roster.
InitFetch ==
    /\ now = 0
    /\ ticks = 0
    /\ \E rows \in [Accounts -> InitialRows], failed_attempts \in 0..(max_failed_attempts - 1) :
        twitter_users = [a \in Accounts |->
                            [rows[a] EXCEPT !.failed_attempts = failed_attempts]]
    /\ twitter_posts = {}
    /\ job = [r \in Runners |-> IdleJob]
    /\ task = [r \in Runners |-> [a \in PoolAccounts |-> NoTask]]
    /\ last_feed = [a \in PoolAccounts |-> {}]
    /\ runners = {"r1"}
    /\ AnalysisAtRest
    /\ intelligence_reports = <<>>
    /\ \E a \in Accounts :
        report = [pc |-> "due", user_id |-> a, answer |-> None,
                  failed_attempts |-> twitter_users[a].failed_attempts,
                  success |-> FALSE, posts_count |-> 0,
                  next_crawl_time |-> 0, updated |-> FALSE]

\* The outcomes of one call of update_user_crawl_success: the UPDATE takes
\* effect and the method returns True (rowcount > 0), or the connection or the
\* statement raises, which the method logs before it returns False, the row
\* left as it was.
crawl_success_outcomes(tbl, user_id, next_crawl_time, t) ==
    {[table |-> update_user_crawl_success(tbl, user_id, next_crawl_time, t),
      updated |-> TRUE],
     [table |-> tbl, updated |-> FALSE]}

\* process_single_user, run by one worker from the request to the mark; the
\* value update_user_crawl_success returns is dropped and success set to True.
ProcessSingleUser ==
    /\ report.pc = "due"
    /\ \E answer \in GatewayAnswers, entries \in Feeds,
          retry_time \in _calculate_retry_time(now) :
        LET user_id == report.user_id
            posts_data == crawl_user_posts(answer, entries)
            processed_posts == [i \in DOMAIN posts_data.posts |->
                                    PostRow(user_id, posts_data.posts[i])]
            ins == insert_posts(twitter_posts, processed_posts)
            nxt == _calculate_next_crawl_time(twitter_users[user_id].crawl_group, now)
        IN  IF posts_data.failed
            THEN /\ twitter_users' = failure_update(twitter_users, user_id,
                                        failure_select(twitter_users, user_id), retry_time)
                 /\ twitter_posts' = twitter_posts
                 /\ report' = [report EXCEPT !.pc = "processed", !.answer = answer]
            ELSE /\ twitter_posts' = ins.table
                 /\ IF nxt.raised
                    THEN /\ twitter_users' = failure_update(twitter_users, user_id,
                                        failure_select(twitter_users, user_id), retry_time)
                         /\ report' = [report EXCEPT !.pc = "processed",
                                                     !.answer = answer,
                                                     !.posts_count = ins.inserted_count]
                    ELSE \E outcome \in crawl_success_outcomes(twitter_users, user_id,
                                                                nxt.time, now) :
                         /\ twitter_users' = outcome.table
                         /\ report' = [report EXCEPT !.pc = "processed",
                                                     !.answer = answer,
                                                     !.posts_count = ins.inserted_count,
                                                     !.next_crawl_time = nxt.time,
                                                     !.updated = outcome.updated,
                                                     !.success = TRUE]
    /\ UNCHANGED <<now, ticks, job, task, last_feed, runners, avars, intelligence_reports>>

SpecFetch == InitFetch /\ [][ProcessSingleUser]_vars

----------------------------------------------------------------------------
(* The tier recomputation job (run_user_profiling_task, src/src/tasks.py)     *)
(* over accounts with a given posting history.                                *)

\* The time of the runs: 10:00 of day 10.
ProfilingTime == 10 * MinutesPerDay + 600

\* The posts of the account: cnt posts, the oldest one oldest_days days
\* before the run, the others within the last hours.
PostsOf(id, cnt, oldest_days, t) ==
    {[post_url |-> "p" \o ToString(i), user_table_id |-> id, post_content |-> "c1",
      published_at |-> IF i = 1 THEN t - oldest_days * MinutesPerDay ELSE t - i]
        : i \in 1..cnt}

PostCounts == {0, 1, 2, 3, 11, 20, 21}
OldestDays == {0, 1, 2, 6, 7, 8}
\* Minutes since the record was created: the last one is less than three
\* days before the run and three calendar days back.
RecordAges == {0, 2 * MinutesPerDay, 4 * MinutesPerDay, 2 * MinutesPerDay + 660}
Statuses == {"pending", "success", "failed", "quarantined"}

\* A row of the given age, status and tier.
ProfiledRow(age, crawl_status, crawl_group, t) ==
    [NewRow(t - age, crawl_group) EXCEPT
        !.crawl_status = crawl_status,
        !.failed_attempts = IF crawl_status \in {"failed", "quarantined"}
                            THEN max_failed_attempts ELSE 0,
        !.next_crawl_time = t - 30]

InitProfile ==
    /\ now = ProfilingTime
    /\ ticks = 0
    /\ job = [r \in Runners |-> IdleJob]
    /\ task = [r \in Runners |-> [a \in PoolAccounts |-> NoTask]]
    /\ last_feed = [a \in PoolAccounts |-> {}]
    /\ runners = {"r1"}
    /\ AnalysisAtRest
    /\ intelligence_reports = <<>>
    /\ \E cnt \in PostCounts, oldest_days \in OldestDays, age \in RecordAges,
          crawl_status \in Statuses, crawl_group \in Tiers, other \in Statuses :
        /\ twitter_users =
             [a \in Accounts |->
                IF a = 1 THEN ProfiledRow(age, crawl_status, crawl_group, now)
                ELSE ProfiledRow(4 * MinutesPerDay, other, "high", now)]
        /\ twitter_posts = PostsOf(1, cnt, oldest_days, now)
        /\ report = [pc |-> "profiling", runs |-> 0, cnt |-> cnt,
                     oldest_days |-> oldest_days, age |-> age,
                     before |-> twitter_users]

\* run_user_profiling_task: one run of update_user_profiling.
RecomputeTiers ==
    /\ report.pc = "profiling"
    /\ report.runs < MaxRuns
    /\ twitter_users' = update_user_profiling(twitter_users, twitter_posts, now)
    /\ report' = [report EXCEPT !.runs = @ + 1]
    /\ UNCHANGED <<now, ticks, twitter_posts, job, task, last_feed, runners, avars,
                   intelligence_reports>>

SpecProfile == InitProfile /\ [][RecomputeTiers]_vars

----------------------------------------------------------------------------
(* The scavenger selection (get_stale_users, src/src/database.py) over a      *)
(* roster of accounts of any status and any drift.                            *)

\* How far next_crawl_time lies behind the clock, in minutes: within
\* hours_back, exactly hours_back, just beyond it, far beyond it.
Drifts == {0, scavenger_hours_back * 60, scavenger_hours_back * 60 + 1,
           3 * MinutesPerDay}

StaleRow(drift, crawl_status, t) ==
    [NewRow(t - 4 * MinutesPerDay, "medium") EXCEPT
        !.next_crawl_time = t - drift, !.crawl_status = crawl_status]

InitStale ==
    /\ now = ProfilingTime
    /\ ticks = 0
    /\ \E drift \in [1..MaxStale -> Drifts], crawl_status \in [1..MaxStale -> Statuses] :
        twitter_users = [id \in 1..MaxStale |->
                            StaleRow(drift[id], crawl_status[id], now)]
    /\ twitter_posts = {}
    /\ job = [r \in Runners |-> IdleJob]
    /\ task = [r \in Runners |-> [a \in PoolAccounts |-> NoTask]]
    /\ last_feed = [a \in PoolAccounts |-> {}]
    /\ runners = {"r1"}
    /\ AnalysisAtRest
    /\ intelligence_reports = <<>>
    /\ \E limit \in 0..MaxStale :
        report = [pc |-> "scavenging", limit |-> limit,
                  hours_back |-> scavenger_hours_back, stale_users |-> <<>>]

\* run_scavenger_task up to the selection of the stale accounts.
SelectStale ==
    /\ report.pc = "scavenging"
    /\ \E stale_users \in get_stale_users(twitter_users, now, report.hours_back,
                                          report.limit) :
        report' = [report EXCEPT !.pc = "selected", !.stale_users = stale_users]
    /\ UNCHANGED <<cvars, twitter_posts, avars, intelligence_reports>>

SpecStale == InitStale /\ [][SelectStale]_vars

----------------------------------------------------------------------------
(* Repeated tiered crawl jobs of one runner outside the quiet window, the    *)
(* clock standing still: every job ends, every worker finishes its account,  *)
(* and the random order of the selection is fair to every due account.       *)

\* A job of the runner selects the account.
Selects(r, a) ==
    /\ run_crawl_task(r)
    /\ \E i \in 1..Len(job'[r].users) : job'[r].users[i].id = a

NextTier ==
    \/ run_crawl_task("r1")
    \/ FetchFailed("r1")
    \/ FetchedList("r1")
    \/ \E a \in Accounts : UpdateSuccess("r1", a)
    \/ \E a \in Accounts : UpdateFailure("r1", a)
    \/ FinishBatch("r1")
    \/ Return("r1")

FairTier ==
    /\ \A a \in Accounts : SF_vars(Selects("r1", a))
    /\ WF_vars(FetchFailed("r1") \/ FetchedList("r1"))
    /\ \A a \in Accounts : WF_vars(UpdateSuccess("r1", a) \/ UpdateFailure("r1", a))
    /\ WF_vars(FinishBatch("r1"))
    /\ WF_vars(Return("r1"))

SpecTier == InitBatch /\ [][NextTier]_vars /\ FairTier

-----------------------------------------------------------------------------
(* The full analysis pipeline (tasks.py run_full_analysis_pipeline): the     *)
(* three stage tasks run one after another, each returning a result record   *)
(* whose outcome is drawn from what the stage can produce.                   *)

\* The largest number of items a stage reports having processed.
MaxStage == 3

\* The task types of the stages, in the order the pipeline calls them.
StageOrder == <<"post_enrichment", "user_profiling_analysis", "intelligence_report">>

\* run_post_enrichment_task: success unless run_post_enrichment raises, and
\* then the counters are zero.
run_post_enrichment_task(raises, total) ==
    [task_type |-> "post_enrichment", success |-> ~raises,
     processed |-> IF raises THEN 0 ELSE total]

\* run_user_profiling_analysis_task: success unless run_user_profiling raises.
run_user_profiling_analysis_task(raises, total) ==
    [task_type |-> "user_profiling_analysis", success |-> ~raises,
     processed |-> IF raises THEN 0 ELSE total]

\* run_intelligence_report_task: the success flag of
\* run_daily_intelligence_report, or failure with zero posts when it raises.
run_intelligence_report_task(raises, result_success, posts_count) ==
    [task_type |-> "intelligence_report", success |-> ~raises /\ result_success,
     processed |-> IF raises THEN 0 ELSE posts_count]

\* Variant of the step after the enrichment stage that goes on to the profile
\* stage whatever the enrichment result.
after_enrichment_continue(enrichment_result) == "profiling"

\* if not enrichment_result['success']: return {'success': False, ...}
after_enrichment(enrichment_result) ==
    IF ~enrichment_result.success THEN "done" ELSE "profiling"

\* pipeline_results = {}; overall_success = True
InitPipeline ==
    /\ ReportInit
    /\ report = [pc |-> "enrichment", pipeline_results |-> <<>>,
                 overall_success |-> TRUE, success |-> FALSE]

\* Step 1: the enrichment stage; its failure returns at once.
PostEnrichmentStage ==
    /\ report.pc = "enrichment"
    /\ \E raises \in BOOLEAN, total \in 0..MaxStage :
        LET enrichment_result == run_post_enrichment_task(raises, total)
        IN  report' = [report EXCEPT
                !.pc = after_enrichment(enrichment_result),
                !.pipeline_results = Append(@, enrichment_result),
                !.overall_success = enrichment_result.success,
                !.success = FALSE]
    /\ UNCHANGED <<cvars, twitter_posts, avars, intelligence_reports>>

\* Step 2: the profile stage; its failure is recorded and the pipeline goes on.
UserProfilingStage ==
    /\ report.pc = "profiling"
    /\ \E raises \in BOOLEAN, total \in 0..MaxStage :
        LET profiling_result == run_user_profiling_analysis_task(raises, total)
        IN  report' = [report EXCEPT
                !.pc = "report",
                !.pipeline_results = Append(@, profiling_result),
                !.overall_success = @ /\ profiling_result.success]
    /\ UNCHANGED <<cvars, twitter_posts, avars, intelligence_reports>>

\* Step 3: the report stage, and the return of overall_success.
IntelligenceReportStage ==
    /\ report.pc = "report"
    /\ \E raises \in BOOLEAN, result_success \in BOOLEAN, posts_count \in 0..MaxStage :
        LET report_result == run_intelligence_report_task(raises, result_success,
                                                          posts_count)
        IN  report' = [report EXCEPT
                !.pc = "done",
                !.pipeline_results = Append(@, report_result),
                !.overall_success = @ /\ report_result.success,
                !.success = report.overall_success /\ report_result.success]
    /\ UNCHANGED <<cvars, twitter_posts, avars, intelligence_reports>>

NextPipeline == PostEnrichmentStage \/ UserProfilingStage \/ IntelligenceReportStage

SpecPipeline == InitPipeline /\ [][NextPipeline]_vars

-----------------------------------------------------------------------------
(* One call of process_users_batch with a thread pool (max_workers > 1) on   *)
(* a list that can be longer than the pool is wide.                          *)

\* process_users_batch(users, max_workers) has been called by runner r1.
InitPool ==
    /\ now = 0
    /\ ticks = 0
    /\ twitter_users \in [PoolAccounts -> InitialRows]
    /\ twitter_posts = {}
    /\ \E n \in 1..MaxPool, max_workers \in 2..MaxWorkers :
        LET users == Snapshot(twitter_users, [i \in 1..n |-> i])
        IN  /\ job = [r \in Runners |->
                        IF r = "r1" THEN BatchJob(users, max_workers) ELSE IdleJob]
            /\ report = [pc |-> "pool", users |-> users, max_workers |-> max_workers]
    /\ task = [r \in Runners |-> [a \in PoolAccounts |-> NoTask]]
    /\ last_feed = [a \in PoolAccounts |-> {}]
    /\ runners = {"r1"}
    /\ AnalysisAtRest
    /\ intelligence_reports = <<>>

NextPool ==
    \/ FetchFailed("r1")
    \/ FetchedList("r1")
    \/ \E a \in PoolAccounts : UpdateSuccess("r1", a)
    \/ \E a \in PoolAccounts : UpdateFailure("r1", a)
    \/ FinishBatch("r1")

SpecPool == InitPool /\ [][NextPool]_vars

-----------------------------------------------------------------------------
(* call_smart_model (src/src/llm_client.py): the report models are tried in  *)
(* list order, each through _make_request, until one succeeds.               *)

\* The result dict of a finished call.
ResultOf(call) == [success |-> call.success, content |-> call.content, error |-> call.error]

\* last_response before the loop: {'success': False, 'error': ...}
AllModelsFailed == [success |-> FALSE, content |-> "", error |-> "all report models failed"]

\* The models call_smart_model hands to _make_request, in order: the override
\* alone, the configured smart_model_name alone when report_models is empty
\* (none when that is missing too: ValueError), else report_models.
smart_targets(model_override, report_models, smart_model_name) ==
    IF model_override # None THEN <<model_override>>
    ELSE IF report_models = <<>>
         THEN (IF smart_model_name # None THEN <<smart_model_name>> ELSE <<>>)
         ELSE report_models

\* Variant of the loop that goes on to the next model after a success too.
after_model_exhaustive(result, index, targets) ==
    IF index = Len(targets) THEN "returned" ELSE "calling"

\* if result.get('success'): return result; the loop ends after the last model.
after_model(result, index, targets) ==
    IF result.success \/ index = Len(targets) THEN "returned" ELSE "calling"

InitSmart ==
    /\ ReportInit
    /\ \E model_override \in {None, "m3"}, report_models \in SeqsUpTo({"m1", "m2"}, MaxModels),
          smart_model_name \in {None, "smart_model"}, max_retries \in 1..MaxRetries :
        LET targets == smart_targets(model_override, report_models, smart_model_name)
        IN  report = [pc |-> IF targets = <<>> THEN "raised" ELSE "calling",
                      model_override |-> model_override,
                      report_models |-> report_models,
                      targets |-> targets,
                      max_retries |-> max_retries,
                      index |-> 1,
                      calls |-> <<>>,
                      result |-> AllModelsFailed]

\* result = self._make_request(prompt, model_name, temperature, max_retries)
CallModel ==
    /\ report.pc = "calling"
    /\ llm.pc = "none"
    /\ llm' = NewCall("text", report.targets[report.index], report.max_retries)
    /\ UNCHANGED <<rvars, cvars, twitter_posts, post_analysis, enricher, postprocessing,
                   postprocessor, insight, post_insights>>

\* The request has returned: a success is returned at once, a failure becomes
\* last_response and the next model is tried, the last failure is returned.
ModelReturned ==
    /\ report.pc = "calling"
    /\ llm.pc = "returned"
    /\ report' = [report EXCEPT
            !.pc = after_model(ResultOf(llm), report.index, report.targets),
            !.index = @ + 1,
            !.calls = Append(@, llm),
            !.result = ResultOf(llm)]
    /\ llm' = NoCall
    /\ UNCHANGED <<intelligence_reports, cvars, twitter_posts, post_analysis, enricher,
                   postprocessing, postprocessor, insight, post_insights>>

NextSmart == CallModel \/ Request \/ ModelReturned

SpecSmart == InitSmart /\ [][NextSmart]_vars

----------------------------------------------------------------------------
(* Properties *)

Row(a) == twitter_users[a]

InQuietWindow(t) == Hour(t) \in start_hour..end_hour

\* The step starts a job on runner r.
JobStarts(r) == job[r].pc = "idle" /\ job'[r].pc # "idle"

\* The step hands account a of runner r's batch to process_single_user.
Submits(r, a) ==
    /\ job[r].pc = "batch"
    /\ job[r].users # <<>>
    /\ Head(job[r].users).id = a
    /\ job'[r].submitted = job[r].submitted + 1

\* The step is the store update that ends a failed process_single_user call.
ReportsFailure(r, a) == task[r][a].pc = "update_failure" /\ task'[r][a].pc = "none"

\* C1: in every reachable state, under any interleaving of success and failure
\* updates by overlapping runners on an account that starts pending with 0
\* failures, crawl_status = 'quarantined' holds exactly when
\* failed_attempts >= max_failed_attempts.
C1_QuarantinedIffThreshold ==
    \A a \in DOMAIN twitter_users :
        Row(a).crawl_status = "quarantined" <=> Row(a).failed_attempts >= max_failed_attempts

\* A quarantined account while the other runner still has a failure report
\* for it in flight.
C1_Witness ==
    \E a \in DOMAIN twitter_users :
        /\ Row(a).crawl_status = "quarantined"
        /\ Row(a).failed_attempts >= max_failed_attempts
        /\ \E r \in Runners : task[r][a].pc = "update_failure"

\* Every account any selection can return from the current table.
SelectedIds ==
    LET sels == (UNION {get_users_for_crawl(twitter_users, now, g, l) :
                            g \in Tiers, l \in Limits})
                \cup get_all_active_users(twitter_users)
                \cup (UNION {get_stale_users(twitter_users, now, scavenger_hours_back, l) :
                            l \in Limits})
    IN  UNION {{u.id : u \in Range(sel)} : sel \in sels}

\* C2: no account that is quarantined at selection time is returned by
\* get_users_for_crawl, get_all_active_users or get_stale_users.
C2_NoQuarantinedSelected == SelectedIds \cap Quarantined(twitter_users) = {}

\* One account is quarantined and due, and a batch has just been selected
\* that holds only the other account.
C2_Witness ==
    /\ \E a \in Quarantined(twitter_users) : Row(a).next_crawl_time <= now
    /\ job["r1"].pc = "batch"
    /\ job["r1"].submitted = 0
    /\ job["r1"].users # <<>>
    /\ SelectedIds # {}

\* C3 (as stated): whenever the gateway returns a list for an account of any
\* tier, process_single_user goes on to mark the account successful, with a
\* next_crawl_time later than the fetch.  The model refutes it for the
\* 'medium' tier.
C3_ListLeadsToSuccess ==
    [][\A r \in Runners :
        FetchedList(r) =>
            \A a \in Accounts :
                Submits(r, a) =>
                    /\ task'[r][a].pc = "update_success"
                    /\ task'[r][a].next_crawl_time > now]_vars

\* C4: with one runner, a failed fetch of an account with f prior failures
\* leaves failed_attempts = f + 1; the status becomes 'quarantined' if
\* f + 1 >= max_failed_attempts, and 'failed' otherwise with next_crawl_time
\* the retry time, which was drawn within
\* [now + retry_delay_min, now + retry_delay_max]; an account enters
\* quarantine only with failed_attempts = max_failed_attempts.
C4_FailureStep ==
    [][\A r \in Runners : \A a \in DOMAIN twitter_users :
        /\ (Submits(r, a) /\ task'[r][a].pc = "update_failure" =>
                /\ task'[r][a].retry_time >= now + retry_delay_min
                /\ task'[r][a].retry_time <= now + retry_delay_max)
        /\ (ReportsFailure(r, a) =>
                LET f == Row(a).failed_attempts
                    new == twitter_users'[a]
                IN  /\ new.failed_attempts = f + 1
                    /\ IF f + 1 >= max_failed_attempts
                       THEN new.crawl_status = "quarantined"
                       ELSE /\ new.crawl_status = "failed"
                            /\ new.next_crawl_time = task[r][a].retry_time)
        /\ (Row(a).crawl_status # "quarantined"
            /\ twitter_users'[a].crawl_status = "quarantined" =>
                twitter_users'[a].failed_attempts = max_failed_attempts)]_vars

\* An account that was never fetched successfully is quarantined with
\* exactly max_failed_attempts failures while the other account is marked
\* failed with a retry time.
C4_Witness ==
    \E a, b \in DOMAIN twitter_users :
        /\ Row(a).crawl_status = "quarantined"
        /\ Row(a).failed_attempts = max_failed_attempts
        /\ Row(a).last_crawled_at = NULL
        /\ Row(b).crawl_status = "failed"
        /\ Row(b).failed_attempts = 1

\* C5 (as stated): once an account is quarantined no step of any job changes
\* its status.  The model refutes it: a success or failure report that was
\* in flight overwrites the status.
C5_QuarantineTerminal ==
    [][\A a \in DOMAIN twitter_users :
        Row(a).crawl_status = "quarantined" =>
            twitter_users'[a].crawl_status = "quarantined"]_vars

\* C6 (as stated): every failure report on an account that has had no
\* success raises failed_attempts by one, so that k concurrent reports raise
\* it by k.  The model refutes it: two reports that both read the counter
\* before either writes raise it by one in total.
C6_FailureReportsAdd ==
    [][\A r \in Runners : \A a \in DOMAIN twitter_users :
        ReportsFailure(r, a) /\ Row(a).last_crawled_at = NULL =>
            twitter_users'[a].failed_attempts = Row(a).failed_attempts + 1]_vars

\* C7 (as stated): a fetch job started while the hour is inside
\* [start_hour, end_hour] returns at once with nothing processed and nothing
\* inserted.  The model refutes it for run_scavenger_task.
C7_QuietWindowStopsJobs ==
    [][\A r \in Runners :
        JobStarts(r) /\ InQuietWindow(now) =>
            /\ job'[r].pc = "done"
            /\ job'[r].submitted = 0
            /\ job'[r].posts_inserted = 0]_vars

\* C8: a tiered crawl or a full crawl started inside the quiet window returns
\* success = true with all counters 0 and changes no account row and no post
\* row.
C8_QuietCrawlIsNoOp ==
    [][\A r \in Runners :
        (run_crawl_task(r) \/ run_full_crawl_task(r)) /\ InQuietWindow(now) =>
            /\ job'[r].pc = "done"
            /\ job'[r].success
            /\ job'[r].submitted = 0
            /\ job'[r].users_success = 0
            /\ job'[r].posts_inserted = 0
            /\ twitter_users' = twitter_users
            /\ twitter_posts' = twitter_posts]_vars

\* Inside the quiet window a runner holds a zero result although an account
\* is due in its tier.
C8_Witness ==
    /\ InQuietWindow(now)
    /\ \E r \in Runners : job[r] = EmptyResult(<<>>, TRUE)
    /\ \E a \in DOMAIN twitter_users :
        /\ Row(a).crawl_status \notin {"quarantined", "pending"}
        /\ Row(a).next_crawl_time <= now

\* C9: no two post rows ever share a post_url, also when two runners ingest
\* the same account's feed at once, and no step removes or alters a post row
\* that exists.
C9_UniqueImmutablePosts ==
    [][/\ \A p, q \in twitter_posts' : p.post_url = q.post_url => p = q
       /\ twitter_posts \subseteq twitter_posts']_vars

\* Both runners have ingested a feed of the same account and have its store
\* update pending; the first inserted the row, the second ingest of the URL
\* was dropped.
C9_Witness ==
    \E a \in DOMAIN twitter_users :
        /\ task["r1"][a].pc # "none"
        /\ task["r2"][a].pc # "none"
        /\ job["r1"].posts_inserted + job["r2"].posts_inserted = 1
        /\ \E p \in twitter_posts : p.user_table_id = a

\* C10: a fetch of an account whose gateway feed is the list ingested by the
\* previous fetch of that account inserts nothing: the post table is
\* unchanged and the call adds 0 to the posts counted.
C10_RefetchInsertsNothing ==
    [][\A r \in Runners : \A a \in Accounts :
        Submits(r, a) /\ last_feed[a] # {} /\ last_feed'[a] = last_feed[a] =>
            /\ twitter_posts' = twitter_posts
            /\ job'[r].posts_inserted = job[r].posts_inserted]_vars

\* A fetch has ingested a non-empty feed of an account and inserted nothing,
\* the account's row of that post being in the table from an earlier fetch.
C10_Witness ==
    \E a \in DOMAIN twitter_users : \E e \in Entry :
        /\ last_feed[a] = {<<e>>}
        /\ PostRow(a, e) \in twitter_posts
        /\ task["r1"][a].pc = "update_success"
        /\ job["r1"].submitted = 1
        /\ job["r1"].posts_inserted = 0

----------------------------------------------------------------------------
(* Properties of the enrichment jobs *)

AnalysisRows(id) == {pa \in post_analysis : pa.post_id = id}

\* The posts runner r has selected and inserted placeholders for.
Dispatched(r) ==
    IF enricher[r].pc = "processing" THEN Range(enricher[r].posts) ELSE {}

\* C11: every post has zero or one enrichment row after every step of any
\* interleaving of enrichment runs, and inserting the pending placeholders
\* again for posts that already have a row leaves every existing row as it was.
C11_AtMostOneEnrichmentRow ==
    [][/\ \A pa, pb \in post_analysis' : pa.post_id = pb.post_id => pa = pb
       /\ \A r \in Runners : CreatePending(r) => post_analysis \subseteq post_analysis']_vars

\* Both runners have inserted placeholders for the same post, one of them
\* after the other, and the post has one row.
C11_Witness ==
    \E id \in Dispatched("r1") \cap Dispatched("r2") :
        /\ Cardinality(AnalysisRows(id)) = 1
        /\ \E pa \in AnalysisRows(id) : pa.analysis_status # "pending"

\* C12: the pending placeholder is an exclusive claim: no post is dispatched
\* (selected, placeholder inserted, handed to the workers) by two concurrent
\* enrichment runners.
C12_ExclusiveClaim ==
    Dispatched("r1") \cap Dispatched("r2") = {}

\* C13: the status of an enrichment row moves from pending to completed or
\* failed at most once: a row that is completed or failed is left as it is,
\* status and result fields, by every later step.
C13_TerminalRowsFrozen ==
    [][\A pa \in post_analysis :
        pa.analysis_status \in {"completed", "failed"} => pa \in post_analysis']_vars

\* C15: a post whose row was left pending by a runner that stopped before
\* committing is selected again by a later enrichment run: once no runner is
\* working, every pending post is in the selection of a run whose cap covers
\* the whole table.
C15_PendingClaimedAgain ==
    (\A r \in Runners : enricher[r].pc = "idle") =>
        \A pa \in post_analysis :
            pa.analysis_status = "pending" =>
                pa.post_id \in Range(get_posts_for_enrichment(
                                        twitter_posts, post_analysis,
                                        Cardinality(twitter_posts)))

\* The enrichment half of C14: a finished enrichment run whose cap covers the
\* table leaves nothing for the next run to select.
EnrichmentRerunSelectsNothing ==
    \A r \in Runners :
        (enricher[r].pc = "done" /\ enricher[r].batch_size >= Cardinality(twitter_posts))
            => get_posts_for_enrichment(twitter_posts, post_analysis,
                                        enricher[r].batch_size) = <<>>

\* The post-processing half of C14.
PostprocessRerunSelectsNothing ==
    \A r \in Runners :
        postprocessor[r].pc = "done"
            => _get_posts_to_process(twitter_posts, postprocessing,
                                     postprocess_hours_back, now) = <<>>

\* C14: when a job has just finished, no post has arrived and its cap covers
\* the eligible posts, the same job started again selects no post, whatever
\* failed in the first run; for the enrichment job and for the
\* post-processing job.
C14_SecondRunSelectsNothing ==
    EnrichmentRerunSelectsNothing /\ PostprocessRerunSelectsNothing

----------------------------------------------------------------------------
(* Properties of the model client *)

Requests(call) == Len(call.responses)

BadRequest(outcome) == outcome.kind = "error" /\ is_bad_request(outcome.text)

\* C16: a model call of either shape with max_retries = n makes at most n
\* provider requests, makes no request after one that yielded non-empty
\* content, sleeps 2, 4, ... seconds between consecutive attempts and not
\* after the last one, and has returned a failure result once n attempts
\* have failed.
C16_BoundedRetries ==
    llm.pc # "none" =>
        /\ Requests(llm) <= llm.max_retries
        /\ \A i \in 1..(Requests(llm) - 1) : ~Yields(llm.responses[i])
        /\ \A i \in 1..Len(llm.waits) : llm.waits[i] = i * 2
        /\ llm.pc = "attempting" =>
                /\ Requests(llm) < llm.max_retries
                /\ Len(llm.waits) = Requests(llm)
        /\ llm.pc = "returned" =>
                /\ Len(llm.waits) = Max(Requests(llm) - 1, 0)
                /\ llm.success <=>
                        /\ Requests(llm) > 0
                        /\ Yields(llm.responses[Requests(llm)])
                /\ llm.success => llm.content = llm.responses[Requests(llm)].text
        /\ (/\ Requests(llm) = llm.max_retries
            /\ \A i \in 1..Requests(llm) : ~Yields(llm.responses[i]))
                => llm.pc = "returned" /\ ~llm.success

\* A text call and a vision call that used up all their attempts.
ExhaustedCall(shape) ==
    /\ llm.pc = "returned"
    /\ llm.shape = shape
    /\ llm.max_retries = MaxRetries
    /\ Requests(llm) = MaxRetries
    /\ ~llm.success
    /\ Len(llm.waits) = MaxRetries - 1

C16_Witness == ExhaustedCall("text")

C16_WitnessVision == ExhaustedCall("vision")

\* C17: a bad-request (400) answer ends the call at once, for text calls as
\* for vision calls: it is the answer to the last request the call makes and
\* the call returns failure.
C17_BadRequestAborts ==
    \A i \in 1..Requests(llm) :
        BadRequest(llm.responses[i]) =>
            /\ i = Requests(llm)
            /\ llm.pc = "returned"
            /\ ~llm.success

\* The vision half of C17, which call_vlm satisfies.
VisionBadRequestAborts ==
    llm.shape = "vision" => C17_BadRequestAborts

----------------------------------------------------------------------------
(* Properties of the insight analysis *)

\* The row of the post whose analysis has just been saved.
SavedRow == CHOOSE pi \in post_insights : pi.post_id = insight.post_id

Parseable(result) == result.success /\ _robust_json_parser(result.content) # NULL

Unparseable(result) == result.success /\ _robust_json_parser(result.content) = NULL

C18_WitnessBothFail ==
    /\ insight.pc = "saved"
    /\ insight.image_data # {}
    /\ Len(insight.results) = 2
    /\ ~insight.results[2].success
    /\ SavedRow.status = "failed"

\* C19: a post that references images none of which could be prepared is
\* analysed as a text post: by the time its result is saved the text model
\* has been called for it.
C19_DowngradeToText ==
    (/\ insight.pc = "saved"
     /\ insight.image_urls # {}
     /\ insight.image_data = {})
        => /\ insight.results # <<>>
           /\ insight.results[1].model_name = "fast_model"

\* C20: when the output of a model call cannot be parsed, directly or after
\* the regex repair, no model is called for the post after that call and the
\* post is saved failed with the error text in deep_interpretation.
C20_ParseFailureIsTerminal ==
    \A i \in 1..Len(insight.results) :
        Unparseable(insight.results[i]) =>
            /\ i = Len(insight.results)
            /\ insight.pc = "saved"
            /\ llm.pc = "none"
            /\ SavedRow.status = "failed"
            /\ SavedRow.deep_interpretation = NoValidJson

\* A text post and an image post whose model output could not be parsed.
ParseFailureSaved(model_name) ==
    /\ insight.pc = "saved"
    /\ insight.results # <<>>
    /\ insight.results[Len(insight.results)].model_name = model_name
    /\ Unparseable(insight.results[Len(insight.results)])
    /\ SavedRow.status = "failed"

C20_Witness == ParseFailureSaved("fast_model")

C20_WitnessVision == ParseFailureSaved("vlm_model")

----------------------------------------------------------------------------
(* Properties of the scorer *)

HasAnyMedia(post) == post.has_media = 1 \/ post.media_urls = "[u]"

\* The formula of the scorer as written down for it.
ReferenceScore(post, config) ==
    config.base_score
    + (IF post.content_type \in DOMAIN config.content_type_scores
       THEN config.content_type_scores[post.content_type] ELSE 0)
    + (IF post.post_tag \in DOMAIN config.tag_scores
       THEN config.tag_scores[post.post_tag] ELSE 0)
    + Len(post.post_content) * config.post_length_weight
    + Len(post.deep_interpretation) * config.interpretation_length_weight
    + (IF HasAnyMedia(post) THEN config.media_bonus ELSE 0)
    + (IF post.post_type = "LinkShare" \/ Contains(post.post_content, "http")
       THEN config.link_bonus ELSE 0)

\* C21 as stated: the score is the value of the reference formula.
C21_ScoreIsReferenceFormula ==
    report.pc = "scored" =>
        report.value_score = ReferenceScore(report.post, report.config)

\* C21 as amended: the score is the value of the reference formula rounded to
\* four decimal places, and it is exactly 1 when base is 1 and every weight,
\* bonus and table entry is 0.
C21_ScoreIsRoundedReferenceFormula ==
    report.pc = "scored" =>
        /\ report.value_score = round4(ReferenceScore(report.post, report.config))
        /\ report.config = ZeroConfig => report.value_score = ScoreUnit

\* A post with media known from media_urls alone, a link and a tag whose
\* fifth decimal was rounded away.
C21_Witness ==
    /\ report.pc = "scored"
    /\ report.post.has_media = 0
    /\ report.post.media_urls = "[u]"
    /\ report.post.post_tag = "ai"
    /\ Contains(report.post.post_content, "http")
    /\ report.value_score # ReferenceScore(report.post, report.config)

\* The (score, published_at) key of a candidate as the claim ranks it.
RankKey(c) == <<calculate_value_score(c.post, report.config), c.published_at>>

RanksAtOrAbove(a, b) ==
    \/ RankKey(a)[1] > RankKey(b)[1]
    \/ RankKey(a)[1] = RankKey(b)[1] /\ RankKey(a)[2] >= RankKey(b)[2]

ReturnedIds == {report.final_posts[i].id : i \in 1..Len(report.final_posts)}

----------------------------------------------------------------------------
(* Properties of the context packer *)

\* C23: the context string the packer returns, separators included, is never
\* longer than max_content_length.
C23_ContextWithinLimit ==
    report.pc = "packed" => Len(report.context) <= report.max_content_length

FirstBlock == Block(1, report.enriched_posts[1], report.context_mode)

\* C24: when max_content_length is exactly the length of the first block and
\* there is a second post, the packer includes the first block and no other,
\* and the sources list is the one entry T1.
C24_ExactFitIncludesOneBlock ==
    (/\ report.pc = "packed"
     /\ Len(report.enriched_posts) >= 2
     /\ report.max_content_length = Len(FirstBlock))
        => /\ report.context = FirstBlock
           /\ Len(report.sources) = 1
           /\ report.sources[1].sid = "T1"

C24_Witness ==
    /\ report.pc = "packed"
    /\ Len(report.enriched_posts) = 2
    /\ report.max_content_length = Len(FirstBlock)
    /\ Len(report.sources) = 1

----------------------------------------------------------------------------
(* Properties of the report generation *)

\* The source ids of the run.
SourceIds == {report.sources[i].sid : i \in 1..Len(report.sources)}

\* The entries a citation of the sources of the run is rendered to.
LinkedSources ==
    {Linked(report.sources[i].sid, report.sources[i].link) : i \in 1..Len(report.sources)}

\* The ids cited in the source references of a report body.
Cited(report_content) ==
    UNION {{report_content[i].ids[j] : j \in 1..Len(report_content[i].ids)} :
             i \in {k \in 1..Len(report_content) : report_content[k].kind = "citation"}}

\* C25: every id cited inside a source reference of a persisted report body
\* is an id of the sources of the run, rendered as the link of that source.
C25_CitationsAreSources ==
    \A r \in 1..Len(intelligence_reports) :
        Cited(intelligence_reports[r].report_content) \subseteq LinkedSources

\* The result of the flow that returned last.
FlowReturned == report.pc = "done" \/ (report.flow = "dual" /\ report.track = "deep"
                                        /\ report.pc = "start")

\* The models of a list of entries.
ModelsOf(entries) == {entries[i].model : i \in 1..Len(entries)}

\* C26: after the fan-out every model of the list is in exactly one of
\* model_reports and failures, and the run succeeds exactly when
\* model_reports is not empty.
C26_EveryModelAccounted ==
    (FlowReturned /\ report.result.error = None)
        => /\ ModelsOf(report.result.model_reports) \cup ModelsOf(report.result.failures)
                = {report.models_to_generate[i] : i \in 1..Len(report.models_to_generate)}
           /\ ModelsOf(report.result.model_reports) \cap ModelsOf(report.result.failures)
                = {}
           /\ Len(report.result.model_reports) + Len(report.result.failures)
                = Len(report.models_to_generate)
           /\ report.result.success <=> report.result.model_reports # <<>>

C26_Witness ==
    /\ FlowReturned
    /\ report.track = "deep"
    /\ Len(report.result.model_reports) = 1
    /\ Len(report.result.failures) = 1
    /\ report.result.failures[1].error = "exception"
    /\ report.result.success

\* C27: a flow that returns success inserted at least one report row, and as
\* many rows as model_reports has entries.
C27_SuccessMeansPersisted ==
    (FlowReturned /\ report.result.success)
        => /\ Len(intelligence_reports) - report.rows_before >= 1
           /\ Len(intelligence_reports) - report.rows_before
                = Len(report.result.model_reports)

\* C28: the dual flow succeeds when a light or a deep variant succeeded.
C28_DualSucceedsWithOneVariant ==
    (report.flow = "dual" /\ report.pc = "done"
        /\ (report.light_reports.success \/ report.deep_report.success))
        => report.success

----------------------------------------------------------------------------
(* Properties of the fetch batch *)

\* The accounts of a batch that are not yet handed to a worker.
Waiting(r) == {job[r].users[i].id : i \in 1..Len(job[r].users)}

\* The success mark and the failure mark of an account.
MarkedSuccess(a) ==
    /\ twitter_users'[a].crawl_status = "success"
    /\ twitter_users'[a].failed_attempts = 0

MarkedFailure(r, a) ==
    /\ twitter_users'[a].crawl_status \in {"failed", "quarantined"}
    /\ twitter_users'[a].failed_attempts = task[r][a].current_failures + 1

----------------------------------------------------------------------------
(* Properties of the fetch of one account *)

\* C30: a network error and a feed parse error both end in a fetch failure
\* mark of the account (failed_attempts incremented) and not in a success
\* mark.
C30_ErrorsMarkFailure ==
    (report.pc = "processed"
        /\ report.answer \in {"network_error", "http_error", "malformed_feed"})
        => /\ ~report.success
           /\ twitter_users[report.user_id].crawl_status \in {"failed", "quarantined"}
           /\ twitter_users[report.user_id].failed_attempts = report.failed_attempts + 1

----------------------------------------------------------------------------
(* Properties of the full crawl *)

\* C31: a full crawl that found non-quarantined accounts outside the quiet
\* window returns success with every one of them processed.
C31_FullCrawlProcessesAll ==
    \A r \in Runners :
        (job[r].pc = "done" /\ job[r].users # <<>>)
            => /\ job[r].success
               /\ users_processed(r) = Len(job[r].users)

----------------------------------------------------------------------------
(* Properties of the tier recomputation *)

\* The posts of account 1 in the last 7 days and the days they span.
PostsInWindow ==
    IF report.cnt > 0 /\ report.oldest_days > 7 THEN report.cnt - 1 ELSE report.cnt

ObservedDays ==
    IF PostsInWindow = 0 THEN 1
    ELSE IF report.cnt > 0 /\ report.oldest_days <= 7
    THEN Min(7, Max(1, report.oldest_days + 1))
    ELSE 1

\* The calendar days since the record of account 1 was created.
AgeDays == Day(now) - Day(now - report.age)

\* The tier of the rule: avg > 10 HIGH, avg > 1 MEDIUM, no post and a
\* record less than 3 days old MEDIUM, LOW otherwise.
ReferenceTier ==
    IF PostsInWindow > 10 * ObservedDays THEN "high"
    ELSE IF PostsInWindow > ObservedDays THEN "medium"
    ELSE IF PostsInWindow = 0 /\ AgeDays < 3 THEN "medium"
    ELSE "low"

Recomputed == report.pc = "profiling" /\ report.runs >= 1
                /\ twitter_users[1].crawl_status # "quarantined"

\* The rule of C32 without its examples.
TierFollowsRule ==
    Recomputed =>
        /\ twitter_users[1].crawl_group = ReferenceTier
        /\ twitter_users[1].avg_posts_per_day = (PostsInWindow * 420) \div ObservedDays

\* C32 as stated: the rule, and 20 posts over 7 days give HIGH, 3 posts give
\* MEDIUM, no post on an account older than 3 days gives LOW.
C32_TierFromAverage ==
    /\ TierFollowsRule
    /\ (Recomputed /\ report.cnt = 20 /\ report.oldest_days <= 7)
          => twitter_users[1].crawl_group = "high"
    /\ (Recomputed /\ report.cnt = 3 /\ report.oldest_days <= 7)
          => twitter_users[1].crawl_group = "medium"
    /\ (Recomputed /\ report.cnt = 0 /\ AgeDays > 3)
          => twitter_users[1].crawl_group = "low"

\* C32 amended: the rule, and 20 posts on one observed day give HIGH, 3
\* posts on at most two observed days give MEDIUM, no post on an account
\* older than 3 days gives LOW.
C32_TierFromObservedAverage ==
    /\ TierFollowsRule
    /\ (Recomputed /\ report.cnt = 20 /\ report.oldest_days = 0)
          => twitter_users[1].crawl_group = "high"
    /\ (Recomputed /\ report.cnt = 3 /\ report.oldest_days <= 1)
          => twitter_users[1].crawl_group = "medium"
    /\ (Recomputed /\ report.cnt = 0 /\ AgeDays > 3)
          => twitter_users[1].crawl_group = "low"

C32_Witness ==
    /\ Recomputed
    /\ report.cnt = 0
    /\ AgeDays = 2
    /\ report.before[1].crawl_group = "low"
    /\ twitter_users[1].crawl_group = "medium"

\* C33: with the posts and the clock unchanged a second run leaves the tier
\* and avg_posts_per_day of every account as the first run left them.
C33_RecomputeIdempotent ==
    [][(report.runs >= 1 /\ report'.runs = report.runs + 1)
          => \A a \in Accounts :
                /\ twitter_users'[a].crawl_group = twitter_users[a].crawl_group
                /\ twitter_users'[a].avg_posts_per_day
                     = twitter_users[a].avg_posts_per_day]_vars

C33_Witness ==
    /\ report.pc = "profiling"
    /\ report.runs = 2
    /\ twitter_users[1].crawl_group # report.before[1].crawl_group
    /\ twitter_users[1].avg_posts_per_day > 0

\* C34: a run changes neither the tier nor avg_posts_per_day of a quarantined
\* account, and of no account the status, failed_attempts, last_crawled_at
\* or next_crawl_time.
C34_RecomputeFrame ==
    [][report'.runs = report.runs + 1
          => \A a \in Accounts :
                /\ twitter_users[a].crawl_status = "quarantined"
                     => twitter_users'[a] = twitter_users[a]
                /\ twitter_users'[a].crawl_status = twitter_users[a].crawl_status
                /\ twitter_users'[a].failed_attempts = twitter_users[a].failed_attempts
                /\ twitter_users'[a].last_crawled_at = twitter_users[a].last_crawled_at
                /\ twitter_users'[a].next_crawl_time = twitter_users[a].next_crawl_time]_vars

C34_Witness ==
    /\ report.pc = "profiling"
    /\ report.runs >= 1
    /\ report.cnt = 21
    /\ twitter_users[1].crawl_status = "quarantined"
    /\ twitter_users[1].crawl_group = "low"
    /\ twitter_users[2].crawl_status = "failed"
    /\ twitter_users[2].crawl_group = "low"

----------------------------------------------------------------------------
(* Properties of the scavenger selection *)

\* C36: the scavenger selection returns at most limit accounts, each pending
\* with next_crawl_time earlier than now - hours_back, oldest next_crawl_time
\* first; an account of any other status is never returned.
C36_ScavengerSelectsStalePending ==
    report.pc = "selected" =>
        /\ Len(report.stale_users) <= report.limit
        /\ \A i \in 1..Len(report.stale_users) :
            LET row == twitter_users[report.stale_users[i].id]
            IN  /\ row.crawl_status = "pending"
                /\ row.next_crawl_time < now - report.hours_back * 60
        /\ \A i, j \in 1..Len(report.stale_users) :
            i < j => /\ report.stale_users[i].id # report.stale_users[j].id
                     /\ twitter_users[report.stale_users[i].id].next_crawl_time
                          <= twitter_users[report.stale_users[j].id].next_crawl_time
        /\ \A id \in 1..MaxStale :
            (/\ twitter_users[id].crawl_status = "pending"
             /\ \E i \in 1..Len(report.stale_users) :
                  twitter_users[id].next_crawl_time
                      < twitter_users[report.stale_users[i].id].next_crawl_time)
                => \E i \in 1..Len(report.stale_users) : report.stale_users[i].id = id

C36_Witness ==
    /\ report.pc = "selected"
    /\ report.limit = 2
    /\ Len(report.stale_users) = 1
    /\ \E id \in 1..MaxStale :
        /\ twitter_users[id].crawl_status = "failed"
        /\ twitter_users[id].next_crawl_time = now - 3 * MinutesPerDay
    /\ \E id \in 1..MaxStale :
        /\ twitter_users[id].crawl_status = "pending"
        /\ twitter_users[id].next_crawl_time = now - scavenger_hours_back * 60

----------------------------------------------------------------------------
(* Properties of the tiered selection *)

\* The account is due and not quarantined.
Due(a) ==
    /\ twitter_users[a].next_crawl_time <= now
    /\ twitter_users[a].crawl_status # "quarantined"

\* A worker has fetched the feed of the account and is about to mark it.
Fetched(a) == \E r \in Runners : task[r][a].pc \in {"update_success", "update_failure"}

\* C35: under repeated tiered crawl jobs with a fair random selection every
\* due, non-quarantined account is eventually selected and fetched, also
\* when more accounts of its tier are due than a job takes.
C35_DueEventuallyFetched ==
    \A a \in Accounts : Due(a) ~> Fetched(a)

\* Both accounts are of one tier and due, a job with cap 1 has taken the
\* first, and a later job fetches the second.
C35_Witness ==
    /\ twitter_users[1].crawl_group = twitter_users[2].crawl_group
    /\ twitter_users[1].crawl_status = "success"
    /\ twitter_users[2].crawl_status = "pending"
    /\ job["r1"].submitted = 1
    /\ job["r1"].users = <<>>
    /\ Fetched(2)

\* C37: the full analysis pipeline runs its stages in the order enrichment,
\* profile analysis, report; a failed enrichment stage ends the pipeline with
\* neither later stage run; a failed profile stage is followed by the report
\* stage all the same; and the returned success flag is true exactly when all
\* three stage results have success = true.
C37_PipelineOrderAndSuccess ==
    LET results == report.pipeline_results
        n == Len(results)
    IN  /\ n <= 3
        /\ \A i \in 1..n : results[i].task_type = StageOrder[i]
        /\ (n >= 1 /\ ~results[1].success) => (n = 1 /\ report.pc = "done")
        /\ (n >= 2 /\ ~results[2].success /\ report.pc = "done") => n = 3
        /\ report.pc = "done" =>
            (report.success <=> (n = 3 /\ \A i \in 1..3 : results[i].success))

\* The profile stage failed, the report stage ran and succeeded, and the
\* pipeline returned failure.
C37_Witness ==
    /\ report.pc = "done"
    /\ Len(report.pipeline_results) = 3
    /\ ~report.pipeline_results[2].success
    /\ report.pipeline_results[3].success
    /\ ~report.success

\* The accounts of the batch whose call has returned.
Finished(r) ==
    {report.users[i].id : i \in 1..Len(report.users)}
        \ ({job[r].users[i].id : i \in 1..Len(job[r].users)} \cup Active(r))

\* C38: in one batch run with max_workers = w > 1 at most w accounts are
\* being processed at any moment; process_users_batch returns only after
\* every account of the batch has finished processing; and no store write
\* of the batch happens after the batch result is returned.
C38_PoolBoundedAndJoined ==
    /\ [](Cardinality(Active("r1")) <= report.max_workers)
    /\ [](job["r1"].pc = "done"
            => /\ Active("r1") = {}
               /\ Finished("r1") = {report.users[i].id : i \in 1..Len(report.users)})
    /\ [][job["r1"].pc = "done"
            => /\ twitter_users' = twitter_users
               /\ twitter_posts' = twitter_posts]_vars

\* Three accounts were handed to a pool of two workers: two are being
\* processed and the third waits for a free worker.
C38_Witness ==
    /\ report.pc = "pool"
    /\ report.max_workers = 2
    /\ Len(report.users) = 3
    /\ Cardinality(Active("r1")) = 2
    /\ job["r1"].users # <<>>

\* C39: with no model override and report_models = m1..mk, call_smart_model
\* calls the models in list order, each with its full retry loop, returns the
\* first successful result without calling any later model, and when all k
\* fail returns the failure result of mk.
C39_ModelsTriedInOrder ==
    (report.model_override = None /\ report.report_models # <<>>) =>
        LET models == report.report_models
            calls == report.calls
            n == Len(calls)
        IN  /\ n <= Len(models)
            /\ \A i \in 1..n :
                /\ calls[i].model_name = models[i]
                /\ calls[i].max_retries = report.max_retries
                /\ ~calls[i].success => Len(calls[i].responses) = report.max_retries
                /\ calls[i].success => i = n /\ report.pc = "returned"
            /\ llm.pc # "none" =>
                /\ n < Len(models)
                /\ llm.model_name = models[n + 1]
                /\ llm.max_retries = report.max_retries
            /\ report.pc = "returned" =>
                /\ n >= 1
                /\ report.result = ResultOf(calls[n])
                /\ report.result.success \/ n = Len(models)

\* The first model failed after its retries, the second succeeded and its
\* result was returned.
C39_Witness ==
    /\ report.pc = "returned"
    /\ report.model_override = None
    /\ Len(report.report_models) = 2
    /\ Len(report.calls) = 2
    /\ ~report.calls[1].success
    /\ report.result.success

\* C40: whenever process_single_user returns success = true for an account,
\* the account's row has crawl_status = 'success', failed_attempts = 0 and
\* the newly computed next_crawl_time: a store update that did not take
\* effect is never reported as a successful fetch.
C40_SuccessMeansStored ==
    (report.pc = "processed" /\ report.success)
        => /\ report.updated
           /\ twitter_users[report.user_id].crawl_status = "success"
           /\ twitter_users[report.user_id].failed_attempts = 0
           /\ twitter_users[report.user_id].next_crawl_time = report.next_crawl_time

====
